---- MODULE Spec2Model ----
(***************************************************************************)
(* Model of the three dental-practice dataset generators:                  *)
(*   generate-pat-data.js   (Appointment Generator)                        *)
(*   the operations generator and the financial generator (part_000).      *)
(*                                                                         *)
(* Conventions                                                             *)
(*  - a calendar date 'YYYY-MM-DD' is the integer YYYYMMDD; the empty      *)
(*    string in a date column is 0;                                        *)
(*  - a JavaScript Date is an instant: whole hours since 1970-01-01T00Z;   *)
(*  - tz is the UTC offset (hours) of the process's local time zone;       *)
(*    daylight saving changes are not modelled;                            *)
(*  - fractions are kept as scaled integers (hundredths, ten-thousandths); *)
(*  - every Math.random() call is an \E over a small set of outcomes.      *)
(***************************************************************************)
EXTENDS Integers, Sequences, FiniteSets, TLC

VARIABLES
  tz,                        \* UTC offset of the local time zone, in hours
  fs,                        \* the working directory: file name -> file
  console,                   \* what the generators logged, in order
  patients,                  \* generatePatients(): id -> patient
  i,                         \* generateAppointmentData: the visit loop counter
  appointments,              \* generateAppointmentData: rows, generation order
  patientLastCleaningDate,   \* patient id -> date of the last cleaning
  activeTreatmentPlans,      \* patient id -> the open plan
  opsPc,                     \* Operations Generator: where main() stands
  appointmentData,           \* readAppointmentData(): <<date, location>> -> bucket
  date,                      \* generateOperationsDataset: the loop's Date
  operationsData,            \* generateOperationsDataset: operations rows
  staffHoursData,            \* generateOperationsDataset: staff-hours rows
  equipmentUsageData,        \* generateOperationsDataset: equipment-usage rows
  finPc,                     \* Financial Generator: where main() stands
  existingData,              \* readExistingData(): the two monthly indexes
  finLocation,               \* generateFinancialDataset: the location loop
  financialData              \* generateFinancialDataset: financial rows

appVars == <<patients, i, appointments, patientLastCleaningDate,
             activeTreatmentPlans>>
opsVars == <<opsPc, appointmentData, date, operationsData, staffHoursData,
             equipmentUsageData>>
finVars == <<finPc, existingData, finLocation, financialData>>
vars == <<tz, fs, console, appVars, opsVars, finVars>>

----------------------------------------------------------------------------
(* Bounds of the model *)

\* visits generated by one run (the program's NUM_RECORDS is 10000)
NUM_RECORDS == 2
\* size of the patient population (the program's NUM_PATIENTS is 600)
NUM_PATIENTS == 2
\* days of the operations date loop that are run, from START_DATE on
OPS_DAYS == 6
\* months of a location's month loop that are run, from its start date on
FIN_MONTHS == 14
ALL_MONTHS == 70

----------------------------------------------------------------------------
(* Arithmetic helpers *)

\* F applied to the value of x, which is computed once
Bind(x, F(_)) == CHOOSE y \in {F(v) : v \in {x}} : TRUE

Min(a, b) == IF a < b THEN a ELSE b
Max(a, b) == IF a > b THEN a ELSE b

\* Math.round(n / d) for d > 0: floor(n/d + 1/2)
RoundDiv(n, d) == (2 * n + d) \div (2 * d)

\* Math.round(a * b / c) for c > 0, computed without leaving 32 bits
MulDivRound(a, b, c) == (a \div c) * b + RoundDiv((a % c) * b, c)

\* Number.prototype.toFixed(k) of n / d, as the integer n/d * 10^k rounded
\* half away from zero (scale = 10^k, d > 0)
ToFixed(n, d, scale) ==
  IF n >= 0 THEN (2 * n * scale + d) \div (2 * d)
  ELSE 0 - ((2 * (0 - n) * scale + d) \div (2 * d))

----------------------------------------------------------------------------
(* JavaScript Date *)

Ymd(y, m, d) == y * 10000 + m * 100 + d
YearOf(s) == s \div 10000
MonthOf(s) == (s \div 100) % 100
DayOf(s) == s % 100

\* days from 1970-01-01 to the civil date s (proleptic Gregorian)
DaysFromCivil(s) ==
  LET y == IF MonthOf(s) <= 2 THEN YearOf(s) - 1 ELSE YearOf(s)
      era == y \div 400
      yoe == y - era * 400
      mp == (MonthOf(s) + 9) % 12
      doy == (153 * mp + 2) \div 5 + DayOf(s) - 1
      doe == yoe * 365 + yoe \div 4 - yoe \div 100 + doy
  IN era * 146097 + doe - 719468

\* the civil date of day z after 1970-01-01
CivilFromDays(z) ==
  LET zz == z + 719468
      era == zz \div 146097
      doe == zz - era * 146097
      yoe == (doe - doe \div 1460 + doe \div 36524 - doe \div 146096) \div 365
      doy == doe - (365 * yoe + yoe \div 4 - yoe \div 100)
      mp == (5 * doy + 2) \div 153
      d == doy - (153 * mp + 2) \div 5 + 1
      m == IF mp < 10 THEN mp + 3 ELSE mp - 9
      y == yoe + era * 400 + (IF m <= 2 THEN 1 ELSE 0)
  IN Ymd(y, m, d)

\* new Date('YYYY-MM-DD'): a date-only string is midnight UTC
ParseDate(s) == DaysFromCivil(s) * 24

\* new Date(y, m - 1, d): midnight of that day in local time
LocalMidnight(s, z) == DaysFromCivil(s) * 24 - z

\* new Date(dateString + 'T' + 'HH:MM'): a date-time without offset is local
ParseLocalDateTime(s, hhmm, z) ==
  (DaysFromCivil(s) * 24 - z) * 60 + (hhmm \div 100) * 60 + (hhmm % 100)

\* date.toISOString().split('T')[0]: the UTC calendar date
formatDate(t) == CivilFromDays(t \div 24)

\* the calendar date of instant t on the local clock
LocalDate(t, z) == CivilFromDays((t + z) \div 24)
getFullYear(t, z) == YearOf(LocalDate(t, z))
getMonth(t, z) == MonthOf(LocalDate(t, z)) - 1
\* 0 = Sunday ... 6 = Saturday, on the local clock
getDay(t, z) == (((t + z) \div 24) + 4) % 7

\* date.setDate(date.getDate() + n): n local days later
AddDays(t, n) == t + 24 * n

\* the offsets explored: America/Los_Angeles (PST), UTC, Europe/Berlin (CET)
TimeZones == {0 - 8, 0, 1}

----------------------------------------------------------------------------
(* generate-pat-data.js: constants and catalogs *)

START_DATE(z) == LocalMidnight(20200101, z)      \* new Date(2020, 0, 1)
END_DATE_Exclusive(z) == LocalMidnight(20250401, z) - 1
END_DATE(z) == LocalMidnight(20250401, z)        \* new Date(2025, 3, 1)

\* the part of the catalogs the model draws from
locations == <<[id |-> "LOC001"], [id |-> "LOC002"]>>

providers == <<[id |-> "DR001", primary_location |-> "LOC001"],
               [id |-> "DR003", primary_location |-> "LOC002"]>>

\* avg_reimbursement_rate in hundredths
insuranceProviders == <<[name |-> "Delta Dental", avg_reimbursement_rate |-> 85],
                        [name |-> "Aetna", avg_reimbursement_rate |-> 75],
                        [name |-> "No Insurance", avg_reimbursement_rate |-> 100]>>

procedures ==
  <<[code |-> "D0120", category |-> "Diagnostic", avg_fee |-> 60, duration |-> 15],
    [code |-> "D1110", category |-> "Preventive", avg_fee |-> 110, duration |-> 45],
    [code |-> "D1120", category |-> "Preventive", avg_fee |-> 85, duration |-> 30],
    [code |-> "D2140", category |-> "Restorative", avg_fee |-> 155, duration |-> 45],
    [code |-> "D5110", category |-> "Prosthodontic", avg_fee |-> 1890, duration |-> 100]>>

appointmentStatuses == <<"Completed", "No-Show", "Canceled", "Rescheduled">>
paymentMethods == <<"Credit Card", "Debit Card", "Cash", "Check", "Insurance Only">>

PatientIds == 1..NUM_PATIENTS

\* the patients generatePatients() can produce that the model draws from
PatientProfiles ==
  {[age |-> 40, insurance_provider |-> "Delta Dental", registration_date |-> 20180510],
   [age |-> 10, insurance_provider |-> "No Insurance", registration_date |-> 20200103]}

\* where x occurs in sequence s (0 when it does not): Array.prototype.find
FindBy(s, P(_)) ==
  IF \E k \in 1..Len(s) : P(s[k])
  THEN CHOOSE k \in 1..Len(s) : P(s[k]) /\ \A j \in 1..(k - 1) : ~P(s[j])
  ELSE 0

----------------------------------------------------------------------------
(* generate-pat-data.js: recall gating *)

NoDate == 0

isDueForRecall(last, patientId, procedureCode, currentDate, z) ==
  IF procedureCode # "D1110" /\ procedureCode # "D1120" THEN TRUE
  ELSE IF last[patientId] = NoDate THEN TRUE
  ELSE LET lastDate == ParseDate(last[patientId])
           currentDateTime == ParseDate(currentDate)
           monthsSince ==
             (getFullYear(currentDateTime, z) - getFullYear(lastDate, z)) * 12
               + (getMonth(currentDateTime, z) - getMonth(lastDate, z))
       IN monthsSince >= 5

----------------------------------------------------------------------------
(* generate-pat-data.js: one procedure of one visit *)

NoPlan == [id |-> "", creationDate |-> NoDate, totalProcedures |-> 0,
           completedProcedures |-> 0, totalCost |-> 0]

PlanCategories == {"Restorative", "Endodontic", "Prosthodontic", "Implant"}

\* a variant that collects the patient's share before the discount
Financials_PaysBeforeDiscount(patient, procedure, r) ==
  LET chargedAmount == RoundDiv(procedure.avg_fee * r.feePct, 100)
      hasInsurance == patient.insurance_provider # "No Insurance"
      insuranceCovered ==
        IF hasInsurance THEN RoundDiv(chargedAmount * 85 * r.covPct, 10000) ELSE 0
      patientResponsibility == chargedAmount - insuranceCovered
      discountAmount ==
        IF r.hasDiscount THEN RoundDiv(patientResponsibility * r.discountTenths, 10)
        ELSE 0
  IN [chargedAmount |-> chargedAmount, hasInsurance |-> hasInsurance,
      insuranceCovered |-> insuranceCovered,
      patientResponsibility |-> patientResponsibility,
      discountAmount |-> discountAmount,
      outOfPocket |-> patientResponsibility - discountAmount,
      isPaid |-> r.isPaid,
      amountPaid |-> IF r.isPaid THEN patientResponsibility ELSE 0,
      paymentMethod |-> IF r.isPaid THEN r.paymentMethod ELSE ""]

\* a variant in which a paying patient pays the whole fee, whatever the
\* insurer covers
Financials_PaysCharged(patient, procedure, r) ==
  LET chargedAmount == RoundDiv(procedure.avg_fee * r.feePct, 100)
      hasInsurance == patient.insurance_provider # "No Insurance"
      insuranceCovered ==
        IF hasInsurance THEN RoundDiv(chargedAmount * 85 * r.covPct, 10000) ELSE 0
      patientResponsibility == chargedAmount - insuranceCovered
      discountAmount ==
        IF r.hasDiscount THEN RoundDiv(patientResponsibility * r.discountTenths, 10)
        ELSE 0
  IN [chargedAmount |-> chargedAmount, hasInsurance |-> hasInsurance,
      insuranceCovered |-> insuranceCovered,
      patientResponsibility |-> patientResponsibility,
      discountAmount |-> discountAmount,
      outOfPocket |-> patientResponsibility - discountAmount,
      isPaid |-> r.isPaid,
      amountPaid |-> IF r.isPaid THEN chargedAmount ELSE 0,
      paymentMethod |-> IF r.isPaid THEN r.paymentMethod ELSE ""]

\* chargedAmount .. paymentMethod of a Completed procedure.
\* r.feePct, r.covPct: the factor (0.9 + Math.random() * 0.2), in hundredths
Financials(patient, procedure, r) ==
  LET chargedAmount == RoundDiv(procedure.avg_fee * r.feePct, 100)
      hasInsurance == patient.insurance_provider # "No Insurance"
      k == FindBy(insuranceProviders,
                  LAMBDA p : p.name = patient.insurance_provider)
      baseRate == IF k # 0 THEN insuranceProviders[k].avg_reimbursement_rate ELSE 75
      \* coverageRate in ten-thousandths, clamped to [0.5, 0.95]
      coverageRate == Max(5000, Min(9500, baseRate * r.covPct))
      insuranceCovered ==
        IF hasInsurance THEN RoundDiv(chargedAmount * coverageRate, 10000) ELSE 0
      patientResponsibility == chargedAmount - insuranceCovered
      discountTenths == IF r.hasDiscount THEN r.discountTenths ELSE 0
      discountAmount == RoundDiv(patientResponsibility * discountTenths, 10)
      outOfPocket == patientResponsibility - discountAmount
      amountPaid == IF r.isPaid THEN outOfPocket ELSE 0
  IN [chargedAmount |-> chargedAmount, hasInsurance |-> hasInsurance,
      insuranceCovered |-> insuranceCovered,
      patientResponsibility |-> patientResponsibility,
      discountAmount |-> discountAmount, outOfPocket |-> outOfPocket,
      isPaid |-> r.isPaid, amountPaid |-> amountPaid,
      paymentMethod |-> IF r.isPaid THEN r.paymentMethod ELSE ""]

\* the treatment-plan columns of a Completed procedure and the plans after it
TreatmentPlan(plans, patientId, procedure, chargedAmount, fdate, r) ==
  IF plans[patientId] # NoPlan
  THEN LET existingPlan == plans[patientId]
           completed == existingPlan.completedProcedures + 1
           rate == Min(100, RoundDiv(completed * 100, existingPlan.totalProcedures))
       IN [id |-> existingPlan.id,
           creationDate |-> existingPlan.creationDate,
           completionDate |-> IF rate >= 100 THEN fdate ELSE NoDate,
           completionRate |-> rate,
           estimatedTotalCost |-> existingPlan.totalCost,
           plans |-> IF rate >= 100
                     THEN [plans EXCEPT ![patientId] = NoPlan]
                     ELSE [plans EXCEPT ![patientId].completedProcedures = completed]]
  ELSE IF r.opensPlan /\ procedure.category \in PlanCategories
  THEN LET newPlan == [id |-> r.planId, creationDate |-> fdate,
                       totalProcedures |-> r.totalProcedures,
                       completedProcedures |-> 1,
                       totalCost |-> chargedAmount * r.totalProcedures]
       IN [id |-> newPlan.id,
           creationDate |-> fdate,
           completionDate |-> NoDate,
           completionRate |-> RoundDiv(100, r.totalProcedures),
           estimatedTotalCost |-> newPlan.totalCost,
           plans |-> [plans EXCEPT ![patientId] = newPlan]]
  ELSE [id |-> "", creationDate |-> NoDate, completionDate |-> NoDate,
        completionRate |-> 0, estimatedTotalCost |-> chargedAmount,
        plans |-> plans]

\* a variant that numbers the procedures without the factor 10
BaseRow_Consecutive(v, p) ==
  [Visit_ID |-> v.i + 1,
   Procedure_ID |-> v.i + p + 1,
   Patient_ID |-> v.patientId,
   Location_ID |-> v.location,
   Provider_ID |-> v.provider,
   Date_of_Service |-> formatDate(v.visitDate),
   Appointment_Time |-> v.appointmentTime,
   Appointment_Status |-> v.appointmentStatus,
   Insurance_Provider |-> v.patient.insurance_provider,
   Is_New_Patient |->
     formatDate(ParseDate(v.patient.registration_date)) = formatDate(v.visitDate),
   Year |-> getFullYear(v.visitDate, v.tz),
   Month |-> getMonth(v.visitDate, v.tz) + 1]

\* the columns every row of visit v carries
BaseRow(v, p) ==
  [Visit_ID |-> v.i + 1,
   Procedure_ID |-> v.i * 10 + p + 1,
   Patient_ID |-> v.patientId,
   Location_ID |-> v.location,
   Provider_ID |-> v.provider,
   Date_of_Service |-> formatDate(v.visitDate),
   Appointment_Time |-> v.appointmentTime,
   Appointment_Status |-> v.appointmentStatus,
   Insurance_Provider |-> v.patient.insurance_provider,
   Is_New_Patient |->
     formatDate(ParseDate(v.patient.registration_date)) = formatDate(v.visitDate),
   Year |-> getFullYear(v.visitDate, v.tz),
   Month |-> getMonth(v.visitDate, v.tz) + 1]

RowColumns(base, more) ==
  [c \in DOMAIN base \cup DOMAIN more |->
     IF c \in DOMAIN more THEN more[c] ELSE base[c]]

CompletedRow(v, p, procedure, f, tp, r) ==
  LET claimStatus == IF f.hasInsurance THEN r.claimStatus ELSE ""
  IN RowColumns(BaseRow(v, p),
      [Procedure_Code |-> procedure.code,
       Procedure_Category |-> procedure.category,
       Procedure_Duration |-> procedure.duration,
       Charged_Amount |-> f.chargedAmount,
       Insurance_Covered_Amount |-> f.insuranceCovered,
       Patient_Responsibility |-> f.patientResponsibility,
       Discount_Applied |-> f.discountAmount,
       Out_of_Pocket |-> f.outOfPocket,
       Amount_Paid |-> f.amountPaid,
       Payment_Method |-> f.paymentMethod,
       Payment_Status |-> IF f.isPaid THEN "Paid" ELSE "Outstanding",
       Insurance_Claim_Status |-> claimStatus,
       Insurance_Claim_Submission_Date |->
         IF f.hasInsurance THEN formatDate(v.visitDate) ELSE NoDate,
       Insurance_Claim_Payment_Date |->
         IF claimStatus = "Paid"
         THEN formatDate(AddDays(v.visitDate, r.claimDays)) ELSE NoDate,
       Treatment_Plan_ID |-> tp.id,
       Treatment_Plan_Creation_Date |-> tp.creationDate,
       Treatment_Plan_Completion_Date |-> tp.completionDate,
       Treatment_Plan_Completion_Rate |-> tp.completionRate,
       Estimated_Total_Cost |-> tp.estimatedTotalCost])

\* a variant that bills a missed appointment
NonCompletedRow_Outstanding(v, p) ==
  RowColumns(BaseRow(v, p),
      [Procedure_Code |-> "", Procedure_Category |-> "", Procedure_Duration |-> 0,
       Charged_Amount |-> 0, Insurance_Covered_Amount |-> 0,
       Patient_Responsibility |-> 0, Discount_Applied |-> 0, Out_of_Pocket |-> 0,
       Amount_Paid |-> 0, Payment_Method |-> "", Payment_Status |-> "Outstanding",
       Insurance_Claim_Status |-> "", Insurance_Claim_Submission_Date |-> NoDate,
       Insurance_Claim_Payment_Date |-> NoDate, Treatment_Plan_ID |-> "",
       Treatment_Plan_Creation_Date |-> NoDate,
       Treatment_Plan_Completion_Date |-> NoDate,
       Treatment_Plan_Completion_Rate |-> 0, Estimated_Total_Cost |-> 0])

NonCompletedRow(v, p) ==
  RowColumns(BaseRow(v, p),
      [Procedure_Code |-> "",
       Procedure_Category |-> "",
       Procedure_Duration |-> 0,
       Charged_Amount |-> 0,
       Insurance_Covered_Amount |-> 0,
       Patient_Responsibility |-> 0,
       Discount_Applied |-> 0,
       Out_of_Pocket |-> 0,
       Amount_Paid |-> 0,
       Payment_Method |-> "",
       Payment_Status |-> "",
       Insurance_Claim_Status |-> "",
       Insurance_Claim_Submission_Date |-> NoDate,
       Insurance_Claim_Payment_Date |-> NoDate,
       Treatment_Plan_ID |-> "",
       Treatment_Plan_Creation_Date |-> NoDate,
       Treatment_Plan_Completion_Date |-> NoDate,
       Treatment_Plan_Completion_Rate |-> 0,
       Estimated_Total_Cost |-> 0])

IsCleaning(code) == code = "D1110" \/ code = "D1120"

\* the body of the inner loop for procedure position p of visit v, from the
\* generator state g = [appointments, last, plans], with random outcomes r
ProcedureStep(g, v, p, r) ==
  LET procedure == procedures[r.procedureIndex]
      fdate == formatDate(v.visitDate)
  IN IF IsCleaning(procedure.code)
        /\ ~isDueForRecall(g.last, v.patientId, procedure.code, fdate, v.tz)
     THEN g           \* continue: the procedure is skipped
     ELSE
       LET last == IF IsCleaning(procedure.code)
                   THEN [g.last EXCEPT ![v.patientId] = fdate]
                   ELSE g.last
       IN IF v.appointmentStatus = "Completed"
          THEN LET f == Financials(v.patient, procedure, r)
                   tp == TreatmentPlan(g.plans, v.patientId, procedure,
                                       f.chargedAmount, fdate, r)
               IN [appointments |->
                     Append(g.appointments, CompletedRow(v, p, procedure, f, tp, r)),
                   last |-> last,
                   plans |-> tp.plans]
          ELSE [appointments |-> Append(g.appointments, NonCompletedRow(v, p)),
                last |-> last,
                plans |-> g.plans]

\* the inner loop: procedures p .. numProceduresForVisit - 1, rs[p + 1] the
\* random outcomes of position p
RECURSIVE ProcedureLoop(_, _, _, _)
ProcedureLoop(g, v, p, rs) ==
  IF p >= Len(rs) THEN g
  ELSE Bind(ProcedureStep(g, v, p, rs[p + 1]),
            LAMBDA next : ProcedureLoop(next, v, p + 1, rs))

SortAppointments_Unsorted(s, z) == s

\* appointments.sort((a, b) => dateA - dateB): stable, ascending (date, time)
SortKey(a, z) == ParseLocalDateTime(a.Date_of_Service, a.Appointment_Time, z)

SortAppointments(s, z) ==
  LET Before(j, k) ==
        \/ SortKey(s[j], z) < SortKey(s[k], z)
        \/ SortKey(s[j], z) = SortKey(s[k], z) /\ j < k
      Rank(k) == Cardinality({j \in 1..Len(s) : Before(j, k)}) + 1
  IN [at \in 1..Len(s) |-> s[CHOOSE k \in 1..Len(s) : Rank(k) = at]]

----------------------------------------------------------------------------
(* The working directory and the CSV dialect *)

FileNames == {"Pat_App_Data.csv", "Operations_Data.csv",
              "Dental_Operations_Data.csv", "Dental_Staff_Hours_Data.csv",
              "Dental_Equipment_Usage_Data.csv", "Financial_Data.csv"}

\* a file is absent, present but unreadable, or holds the rows written to it
AbsentFile == [state |-> "absent", rows |-> <<>>]
UnreadableFile == [state |-> "unreadable", rows |-> <<>>]
FileOf(rows) == [state |-> "ok", rows |-> rows]

\* convertToCSV, then the readers' split on commas and strip of quotes: every
\* cell comes back as text, so a boolean column is the string 'true'/'false';
\* digits stand for themselves and parseInt(x) || 0 returns them
CsvCell(row, c) ==
  IF c \in {"Is_New_Patient", "Is_Holiday", "Is_Weekend"} THEN (IF row[c] THEN "true" ELSE "false") ELSE row[c]
convertToCSV(data) ==
  [k \in 1..Len(data) |-> [c \in DOMAIN data[k] |-> CsvCell(data[k], c)]]

writeFileSync_Upstream(files, name, rows) ==
  [files EXCEPT !["Pat_App_Data.csv"] = FileOf(rows)]

writeFileSync(files, name, rows) == [files EXCEPT ![name] = FileOf(rows)]

----------------------------------------------------------------------------
(* generate-pat-data.js: the visit loop *)

\* Math.random() outcomes explored for one procedure by the full runs: a
\* cleaning (D1110), or a filling (D2140) that opens a plan of 1 or 2
\* procedures when the patient has none
ProcedureDraws ==
  {r \in [procedureIndex : {2, 4}, feePct : {100}, covPct : {100},
          hasDiscount : {FALSE}, discountTenths : {1}, isPaid : {TRUE},
          paymentMethod : {"Cash"}, opensPlan : BOOLEAN,
          totalProcedures : {1, 2}, planId : {"TP0042"},
          claimStatus : {"Paid"}, claimDays : {15}] :
     /\ r.procedureIndex = 2 => (~r.opensPlan /\ r.totalProcedures = 1)
     /\ r.procedureIndex = 4 => r.opensPlan}

\* Math.random() outcomes explored for the first procedure of the first visit
FirstProcedureDraws ==
  {r \in [procedureIndex : 1..Len(procedures), feePct : {90, 110},
          covPct : {90, 110}, hasDiscount : BOOLEAN, discountTenths : {1, 3},
          isPaid : BOOLEAN, paymentMethod : {"Cash", "Insurance Only"},
          opensPlan : BOOLEAN, totalProcedures : {1, 5}, planId : {"TP0042"},
          claimStatus : {"Paid", "Denied"}, claimDays : {15}] :
     /\ ~r.opensPlan => r.totalProcedures = 1
     /\ ~r.hasDiscount => r.discountTenths = 1
     /\ ~r.isPaid => r.paymentMethod = "Cash"}

\* instants randomDate() can return: 2024-03-01T20Z, 2024-07-02T12Z, 2024-08-02T12Z
VisitInstants == {ParseDate(20240301) + 20, ParseDate(20240702) + 12,
                  ParseDate(20240802) + 12}

\* appointment times 'HH:MM' as the integer HHMM
AppointmentTimes == {900}

Population == [k \in PatientIds |->
                 CHOOSE q \in PatientProfiles :
                   (k % 2 = 1) <=> (q.insurance_provider = "Delta Dental")]

\* the fields of one visit that its rows are built from
Visit(index, patientId, patient, visitDate, appointmentTime, locationIndex, statusIndex, z) ==
  LET location == locations[locationIndex]
      k == FindBy(providers, LAMBDA q : q.primary_location = location.id)
  IN [i |-> index, patientId |-> patientId, patient |-> patient,
      visitDate |-> visitDate, appointmentTime |-> appointmentTime,
      location |-> location.id, provider |-> providers[k].id,
      appointmentStatus |-> appointmentStatuses[statusIndex], tz |-> z]

\* the generator's globals before the first visit
NoAppointments ==
  [appointments |-> <<>>,
   last |-> [k \in PatientIds |-> NoDate],
   plans |-> [k \in PatientIds |-> NoPlan]]

\* the Operations Generator has not run
OpsIdle ==
  /\ opsPc = "idle"
  /\ appointmentData = <<>>
  /\ date = 0
  /\ operationsData = <<>>
  /\ staffHoursData = <<>>
  /\ equipmentUsageData = <<>>

\* the Financial Generator has not run
FinIdle ==
  /\ finPc = "idle"
  /\ existingData = <<>>
  /\ finLocation = 0
  /\ financialData = <<>>

InitApp ==
  /\ tz \in TimeZones
  /\ fs = [n \in FileNames |-> AbsentFile]
  /\ console = <<>>
  /\ patients = Population
  /\ i = 0
  /\ appointments = NoAppointments.appointments
  /\ patientLastCleaningDate = NoAppointments.last
  /\ activeTreatmentPlans = NoAppointments.plans
  /\ OpsIdle
  /\ FinIdle

\* one iteration of the visit loop; the iteration that ends the loop also
\* sorts the rows and writes Pat_App_Data.csv
VisitIterationOn(Instants, Times, Locations, Statuses, Counts, Draws) ==
  /\ i < NUM_RECORDS
  /\ \E patientId \in PatientIds, visitDate \in Instants,
        appointmentTime \in Times,
        locationIndex \in Locations, statusIndex \in Statuses,
        numProceduresForVisit \in Counts :
       \E rs \in [1..numProceduresForVisit -> Draws] :
         LET regDate == ParseDate(patients[patientId].registration_date)
             from == IF regDate > START_DATE(tz) THEN regDate ELSE START_DATE(tz)
             v == Visit(i, patientId, patients[patientId], visitDate,
                        appointmentTime, locationIndex, statusIndex, tz)
         IN /\ from <= visitDate /\ visitDate < END_DATE(tz)
            /\ \E g \in {ProcedureLoop([appointments |-> appointments,
                                         last |-> patientLastCleaningDate,
                                         plans |-> activeTreatmentPlans],
                                        v, 0, rs)} :
                 /\ patientLastCleaningDate' = g.last
                 /\ activeTreatmentPlans' = g.plans
                 /\ i' = i + 1
                 /\ IF i + 1 = NUM_RECORDS
                    THEN \E sorted \in {SortAppointments(g.appointments, tz)} :
                           /\ appointments' = sorted
                           /\ fs' = writeFileSync(fs, "Pat_App_Data.csv",
                                                  convertToCSV(sorted))
                           /\ console' = Append(console,
                                                "Data saved to 'Pat_App_Data.csv'")
                    ELSE /\ appointments' = g.appointments
                         /\ UNCHANGED <<fs, console>>
  /\ UNCHANGED <<tz, patients, opsVars, finVars>>

VisitIterationAt(Instants, Locations, Statuses, Counts, Draws) ==
  VisitIterationOn(Instants, AppointmentTimes, Locations, Statuses, Counts, Draws)

VisitIteration(Locations, Statuses, Counts, Draws) ==
  VisitIterationAt(VisitInstants, Locations, Statuses, Counts, Draws)

GenerateVisit == VisitIteration({1}, {1, 3}, 1..2, ProcedureDraws)

GenerateFirstProcedure ==
  /\ i = 0
  /\ VisitIteration(1..Len(locations), 1..Len(appointmentStatuses), {1},
                    FirstProcedureDraws)

----------------------------------------------------------------------------
(* Operations Generator (part_000 from line 1009): catalogs *)

\* the columns of the location table the generator reads; targets in hundredths
operationsLocations ==
  <<[id |-> "LOC001", chairs |-> 5, operatingHours |-> 9,
     avgPatientsPerChairPerDay |-> 8, target_chair_utilization |-> 85,
     target_collection_rate |-> 92],
    [id |-> "LOC002", chairs |-> 4, operatingHours |-> 10,
     avgPatientsPerChairPerDay |-> 7, target_chair_utilization |-> 82,
     target_collection_rate |-> 90]>>

staffMembers ==
  <<[id |-> "DR001", role |-> "Dentist", primary_location |-> "LOC001",
     hourly_rate |-> 150, full_time |-> TRUE],
    [id |-> "DR003", role |-> "Dentist", primary_location |-> "LOC002",
     hourly_rate |-> 155, full_time |-> TRUE],
    [id |-> "DR004", role |-> "Dentist", primary_location |-> "LOC002",
     hourly_rate |-> 145, full_time |-> FALSE],
    [id |-> "HYG001", role |-> "Hygienist", primary_location |-> "LOC001",
     hourly_rate |-> 60, full_time |-> TRUE],
    [id |-> "HYG004", role |-> "Hygienist", primary_location |-> "LOC001",
     hourly_rate |-> 62, full_time |-> TRUE],
    [id |-> "HYG005", role |-> "Hygienist", primary_location |-> "LOC001",
     hourly_rate |-> 59, full_time |-> TRUE],
    [id |-> "HYG009", role |-> "Hygienist", primary_location |-> "LOC001",
     hourly_rate |-> 61, full_time |-> FALSE]>>

\* share of each role working on a day, in thousandths, in key order
staffWorkingPercent ==
  <<[role |-> "Dentist", percent |-> 900], [role |-> "Hygienist", percent |-> 833],
    [role |-> "Assistant", percent |-> 850], [role |-> "Admin", percent |-> 973]>>

equipment ==
  <<[id |-> "EQ001", locations |-> {"LOC001", "LOC002"}, avg_usage_time |-> 15,
     avg_daily_uses |-> 12],
    [id |-> "EQ003", locations |-> {"LOC001"}, avg_usage_time |-> 30,
     avg_daily_uses |-> 3]>>

holidays ==
  {20200101, 20200120, 20200217, 20200525, 20200704, 20200907, 20201111,
   20201126, 20201225, 20210101, 20210118, 20210215, 20210531, 20210704,
   20210906, 20211111, 20211125, 20211225, 20220101, 20220117, 20220221,
   20220530, 20220704, 20220905, 20221111, 20221124, 20221225, 20230101,
   20230116, 20230220, 20230529, 20230704, 20230904, 20231111, 20231123,
   20231225, 20240101, 20240115, 20240219, 20240527, 20240704, 20240902,
   20241111, 20241128, 20241225, 20250101, 20250120, 20250217, 20250526,
   20250704}

dayNames == <<"Sunday", "Monday", "Tuesday", "Wednesday", "Thursday", "Friday",
              "Saturday">>

\* the text 'NaN' that toFixed gives for 0 / 0, in a numeric column
NaN == 0 - 1000000

\* randomFloatBetween(min, max) / randomBetween(min, max) at Math.random()
\* near 0 (u = 0) or near 1 (u = 1)
randomFloatBetween(min, max, u) == IF u = 0 THEN min ELSE max

\* Array.prototype.reduce((sum, x) => sum + x, 0)
RECURSIVE SumTo(_, _)
SumTo(s, k) == IF k = 0 THEN 0 ELSE s[k] + SumTo(s, k - 1)
Sum(s) == SumTo(s, Len(s))

----------------------------------------------------------------------------
(* Operations Generator: readAppointmentData *)

EmptyMetrics ==
  [total |-> 0, completed |-> 0, canceled |-> 0, noShow |-> 0, rescheduled |-> 0,
   totalDuration |-> 0, newPatients |-> 0, chargedAmount |-> 0,
   insuranceCovered |-> 0, patientResponsibility |-> 0, amountPaid |-> 0]

Count(b) == IF b THEN 1 ELSE 0

\* the bucket after one more row of its date and location
AddToMetrics(m, row) ==
  LET status == row.Appointment_Status
      done == status = "Completed"
  IN [total |-> m.total + 1,
      completed |-> m.completed + Count(done),
      canceled |-> m.canceled + Count(status = "Canceled"),
      noShow |-> m.noShow + Count(status = "No-Show"),
      rescheduled |-> m.rescheduled + Count(status = "Rescheduled"),
      totalDuration |-> m.totalDuration + (IF done THEN row.Procedure_Duration ELSE 0),
      newPatients |-> m.newPatients + Count(row.Is_New_Patient = "true"),
      chargedAmount |-> m.chargedAmount + (IF done THEN row.Charged_Amount ELSE 0),
      insuranceCovered |->
        m.insuranceCovered + (IF done THEN row.Insurance_Covered_Amount ELSE 0),
      patientResponsibility |->
        m.patientResponsibility + (IF done THEN row.Patient_Responsibility ELSE 0),
      amountPaid |-> m.amountPaid + (IF done THEN row.Amount_Paid ELSE 0)]

MetricsOf_Empty(index, key) == EmptyMetrics

MetricsOf(index, key) == IF key \in DOMAIN index THEN index[key] ELSE EmptyMetrics

RECURSIVE IndexRows(_, _, _)
IndexRows(index, rows, k) ==
  IF k > Len(rows) THEN index
  ELSE LET key == <<rows[k].Date_of_Service, rows[k].Location_ID>>
       IN Bind([q \in DOMAIN index \cup {key} |->
                  IF q = key THEN AddToMetrics(MetricsOf(index, key), rows[k])
                  ELSE index[q]],
               LAMBDA next : IndexRows(next, rows, k + 1))

\* a readable file that is not the expected table (one line under a header
\* without the expected columns): every column read is undefined
UndefinedKey == <<NoDate, "undefined">>
MalformedFile == [state |-> "malformed", rows |-> <<>>]

\* the index the promise resolves with, for a file that can be read
readAppointmentData(file) ==
  IF file.state = "malformed"
  THEN [q \in {UndefinedKey} |-> [EmptyMetrics EXCEPT !.total = 1]]
  ELSE IndexRows(<<>>, file.rows, 1)

----------------------------------------------------------------------------
(* Operations Generator: generateDailyOperations *)

\* availableMinutes doubled (a Saturday has half of them), to stay integral
DoubleAvailable(minutes, day) == IF day = 6 THEN minutes ELSE 2 * minutes

\* a variant that synthesizes the utilization whatever the bucket holds
ChairUtilization_Synthesized(appointmentMetrics, location, d, u, z) ==
  LET targetUtilization ==
        location.target_chair_utilization * 10 + (getFullYear(d, z) - 2020) * 5
  IN RoundDiv(randomFloatBetween(Max(650, targetUtilization - 100),
                                 Min(950, targetUtilization + 50), u), 10)

\* Chair_Utilization, hundredths: derived from the bucket, else synthesized
ChairUtilization(appointmentMetrics, location, d, u, z) ==
  LET yearsSince2020 == getFullYear(d, z) - 2020
      \* thousandths
      targetUtilization == location.target_chair_utilization * 10 + yearsSince2020 * 5
      availableMinutes ==
        DoubleAvailable(location.chairs * location.operatingHours * 60, getDay(d, z))
  IN IF appointmentMetrics.totalDuration > 0
     THEN Min(95, ToFixed(2 * appointmentMetrics.totalDuration, availableMinutes, 100))
     ELSE RoundDiv(randomFloatBetween(Max(650, targetUtilization - 100),
                                      Min(950, targetUtilization + 50), u), 10)

\* Actual_Collection_Rate, hundredths
ActualCollectionRate(appointmentMetrics, location, u) ==
  IF appointmentMetrics.chargedAmount > 0
  THEN ToFixed(appointmentMetrics.amountPaid, appointmentMetrics.chargedAmount, 100)
  ELSE randomFloatBetween(Max(60, location.target_collection_rate - 10),
                          Min(98, location.target_collection_rate + 5), u)

\* [...staffInRole].sort(() => 0.5 - Math.random()): of the shuffles the model
\* takes the one that keeps the roster order (u = 0) and the one that
\* reverses it (u = 1)
Shuffled(staffInRole, u) ==
  IF u = 0 THEN staffInRole
  ELSE [k \in 1..Len(staffInRole) |-> staffInRole[Len(staffInRole) + 1 - k]]

\* everyone in the role works, whatever the role's share
StaffOfRole_Everyone(location, r, day, u) ==
  LET staffInRole ==
        SelectSeq(staffMembers,
                  LAMBDA m : m.primary_location = location.id
                             /\ m.role = staffWorkingPercent[r].role)
  IN [k \in 1..Len(staffInRole) |->
        [Staff_ID |-> staffInRole[k].id, Staff_Role |-> staffInRole[k].role,
         Hours_Worked |-> 800, Labor_Cost |-> 800 * staffInRole[k].hourly_rate]]

\* who works at the location on the day, role by role.  Hours in hundredths,
\* cost in cents
StaffOfRole(location, r, day, u) ==
  LET staffInRole ==
        SelectSeq(staffMembers,
                  LAMBDA m : m.primary_location = location.id
                             /\ m.role = staffWorkingPercent[r].role)
      numWorking == RoundDiv(Len(staffInRole) * staffWorkingPercent[r].percent, 1000)
      workingToday == SubSeq(Shuffled(staffInRole, u), 1, numWorking)
  IN [k \in 1..Len(workingToday) |->
        LET staff == workingToday[k]
            hoursWorked ==
              IF day = 6
              THEN (IF staff.full_time THEN randomFloatBetween(400, 500, u)
                    ELSE randomFloatBetween(300, 400, u))
              ELSE (IF staff.full_time THEN randomFloatBetween(700, 900, u)
                    ELSE randomFloatBetween(400, 600, u))
        IN [Staff_ID |-> staff.id, Staff_Role |-> staff.role,
            Hours_Worked |-> hoursWorked,
            Labor_Cost |-> hoursWorked * staff.hourly_rate]]

RECURSIVE StaffData(_, _, _, _)
StaffData(location, r, day, u) ==
  IF r > Len(staffWorkingPercent) THEN <<>>
  ELSE StaffOfRole(location, r, day, u) \o StaffData(location, r + 1, day, u)

EquipmentData(location, actualAppointments, day, u) ==
  LET locationEquipment ==
        SelectSeq(equipment, LAMBDA eq : location.id \in eq.locations)
      capacity == location.avgPatientsPerChairPerDay * location.chairs
      availableMinutes == DoubleAvailable(location.operatingHours * 60, day)
  IN [k \in 1..Len(locationEquipment) |->
        LET eq == locationEquipment[k]
            f == randomFloatBetween(80, 120, u)
            dailyUses ==
              IF location.avgPatientsPerChairPerDay > 0
              THEN RoundDiv(eq.avg_daily_uses * actualAppointments * f, capacity * 100)
              ELSE RoundDiv(eq.avg_daily_uses * f, 100)
            usageTime == dailyUses * eq.avg_usage_time
        IN [Equipment_ID |-> eq.id, Usage_Count |-> dailyUses,
            Usage_Time_Minutes |-> usageTime,
            Utilization_Rate |-> Min(95, ToFixed(2 * usageTime, availableMinutes, 100))]]

\* getGrowthFactor(date) as a fraction of 120000
getGrowthFactor(d, u, z) ==
  LET monthsSince2020 == (getFullYear(d, z) - 2020) * 12 + getMonth(d, z)
  IN 120000 + monthsSince2020 * 5 * randomFloatBetween(80, 120, u)

\* the record of an open day (a selection of its columns; rates in
\* hundredths), with its staff and equipment details
DailyRecord(d, location, appointmentData_, u, z) ==
  LET formattedDate == formatDate(d)
      day == getDay(d, z)
      appointmentMetrics == MetricsOf(appointmentData_, <<formattedDate, location.id>>)
      totalScheduled == appointmentMetrics.total
      cancellations == appointmentMetrics.canceled
      noShows == appointmentMetrics.noShow
      newPatients == appointmentMetrics.newPatients
      actualAppointments == appointmentMetrics.completed
      staffData == StaffData(location, 1, day, u)
      totalLaborHours == Sum([k \in 1..Len(staffData) |-> staffData[k].Hours_Worked])
      totalLaborCost == Sum([k \in 1..Len(staffData) |-> staffData[k].Labor_Cost])
      equipmentData == EquipmentData(location, actualAppointments, day, u)
      dailyClaimsSubmitted == RoundDiv(actualAppointments * 8, 10)
      dailyClaimsProcessed ==
        RoundDiv(dailyClaimsSubmitted * randomFloatBetween(90, 110, u), 100)
      dailyClaimsDenied ==
        RoundDiv(dailyClaimsProcessed * randomFloatBetween(2, 8, u), 100)
      charged == appointmentMetrics.chargedAmount
  IN [Operations_ID |-> <<location.id, formattedDate>>,
      Location_ID |-> location.id,
      Date |-> formattedDate,
      Year |-> getFullYear(d, z),
      Month |-> getMonth(d, z) + 1,
      Day_of_Week |-> dayNames[day + 1],
      Is_Holiday |-> formattedDate \in holidays,
      Is_Weekend |-> (day = 0 \/ day = 6),
      Scheduled_Appointments |-> totalScheduled,
      Actual_Appointments |-> actualAppointments,
      Chair_Utilization |-> ChairUtilization(appointmentMetrics, location, d, u, z),
      Cancellation_Count |-> cancellations,
      Cancellation_Rate |->
        IF totalScheduled > 0 THEN ToFixed(cancellations, totalScheduled, 100) ELSE 0,
      No_Show_Count |-> noShows,
      No_Show_Rate |->
        IF totalScheduled > 0 THEN ToFixed(noShows, totalScheduled, 100) ELSE 0,
      New_Patient_Count |-> newPatients,
      Returning_Patient_Count |-> actualAppointments - newPatients,
      Total_Labor_Hours |-> ToFixed(totalLaborHours, 100, 10),
      Total_Labor_Cost |-> RoundDiv(totalLaborCost, 100),
      Staff_Count |-> Len(staffData),
      Dentist_Count |-> Len(SelectSeq(staffData, LAMBDA m : m.Staff_Role = "Dentist")),
      Hygienist_Count |->
        Len(SelectSeq(staffData, LAMBDA m : m.Staff_Role = "Hygienist")),
      Assistant_Count |->
        Len(SelectSeq(staffData, LAMBDA m : m.Staff_Role = "Assistant")),
      Admin_Count |-> Len(SelectSeq(staffData, LAMBDA m : m.Staff_Role = "Admin")),
      Equipment_Count |-> Len(equipmentData),
      Insurance_Claims_Submitted |-> dailyClaimsSubmitted,
      Insurance_Claims_Processed |-> dailyClaimsProcessed,
      Insurance_Claims_Denied |-> dailyClaimsDenied,
      Insurance_Denial_Rate |->
        IF dailyClaimsProcessed = 0 THEN NaN
        ELSE ToFixed(dailyClaimsDenied, dailyClaimsProcessed, 100),
      Target_Collection_Rate |-> location.target_collection_rate,
      Actual_Collection_Rate |-> ActualCollectionRate(appointmentMetrics, location, u),
      Revenue_Per_Hour |->
        IF totalLaborHours > 0 THEN RoundDiv(charged * 100, totalLaborHours)
        ELSE RoundDiv(randomFloatBetween(900, 1400, u) * getGrowthFactor(d, u, z), 120000),
      Revenue_Per_Chair |->
        IF location.chairs > 0 THEN RoundDiv(charged, location.chairs)
        ELSE RoundDiv(randomFloatBetween(1800, 2400, u) * getGrowthFactor(d, u, z), 120000),
      Revenue_Per_Patient |->
        IF actualAppointments > 0 THEN RoundDiv(charged, actualAppointments)
        ELSE RoundDiv(randomFloatBetween(250, 350, u) * getGrowthFactor(d, u, z), 120000),
      Staff_Details |-> staffData,
      Equipment_Details |-> equipmentData]

\* <<>> for a closed day (null), else the one record of the day
generateDailyOperations(d, location, appointmentData_, u, z) ==
  IF getDay(d, z) = 0 \/ formatDate(d) \in holidays
  THEN <<>>
  ELSE <<DailyRecord(d, location, appointmentData_, u, z)>>

SpecApp == InitApp /\ [][GenerateVisit]_vars

SpecRow == InitApp /\ [][GenerateFirstProcedure]_vars

----------------------------------------------------------------------------
(* Operations Generator: generateOperationsDataset and main *)

RECURSIVE Flatten(_)
Flatten(ss) ==
  IF Len(ss) = 0 THEN <<>> ELSE Flatten(SubSeq(ss, 1, Len(ss) - 1)) \o ss[Len(ss)]

\* the records of one date, location by location
RECURSIVE LocationLoop(_, _, _, _, _)
LocationLoop(d, k, appointmentData_, us, z) ==
  IF k > Len(operationsLocations) THEN <<>>
  ELSE generateDailyOperations(d, operationsLocations[k], appointmentData_, us[k], z)
         \o LocationLoop(d, k + 1, appointmentData_, us, z)

\* the record without its Staff_Details and Equipment_Details
OperationsRow(dailyData) ==
  [c \in DOMAIN dailyData \ {"Staff_Details", "Equipment_Details"} |-> dailyData[c]]

StaffHoursRows(dailyData) ==
  [k \in 1..Len(dailyData.Staff_Details) |->
     LET staffRecord == dailyData.Staff_Details[k]
     IN [Operations_ID |-> dailyData.Operations_ID,
         Location_ID |-> dailyData.Location_ID,
         Date |-> dailyData.Date,
         Staff_ID |-> staffRecord.Staff_ID,
         Staff_Role |-> staffRecord.Staff_Role,
         Hours_Worked |-> staffRecord.Hours_Worked,
         Labor_Cost |-> staffRecord.Labor_Cost]]

\* a variant that lists only the equipment used that day
EquipmentUsageRows_Used(dailyData) ==
  LET used == SelectSeq(dailyData.Equipment_Details, LAMBDA e : e.Usage_Count > 0)
  IN [k \in 1..Len(used) |->
        [Operations_ID |-> dailyData.Operations_ID,
         Location_ID |-> dailyData.Location_ID,
         Date |-> dailyData.Date,
         Equipment_ID |-> used[k].Equipment_ID,
         Usage_Count |-> used[k].Usage_Count,
         Usage_Time_Minutes |-> used[k].Usage_Time_Minutes,
         Utilization_Rate |-> used[k].Utilization_Rate]]

EquipmentUsageRows(dailyData) ==
  [k \in 1..Len(dailyData.Equipment_Details) |->
     LET equipRecord == dailyData.Equipment_Details[k]
     IN [Operations_ID |-> dailyData.Operations_ID,
         Location_ID |-> dailyData.Location_ID,
         Date |-> dailyData.Date,
         Equipment_ID |-> equipRecord.Equipment_ID,
         Usage_Count |-> equipRecord.Usage_Count,
         Usage_Time_Minutes |-> equipRecord.Usage_Time_Minutes,
         Utilization_Rate |-> equipRecord.Utilization_Rate]]

\* appointment files the Operations Generator may find: rows the Appointment
\* Generator writes for the listed visits
DrawOf(procedureIndex) ==
  [procedureIndex |-> procedureIndex, feePct |-> 100, covPct |-> 100,
   hasDiscount |-> FALSE, discountTenths |-> 1, isPaid |-> TRUE,
   paymentMethod |-> "Cash", opensPlan |-> FALSE, totalProcedures |-> 1,
   planId |-> "TP0042", claimStatus |-> "Paid", claimDays |-> 15]

RECURSIVE VisitLoop(_, _, _)
VisitLoop(g, visits, k) ==
  IF k > Len(visits) THEN g
  ELSE Bind(ProcedureLoop(g, visits[k].v, 0, visits[k].rs),
            LAMBDA next : VisitLoop(next, visits, k + 1))

WrittenBy(visits) ==
  Bind(VisitLoop(NoAppointments, visits, 1).appointments,
       LAMBDA rows : FileOf(convertToCSV(SortAppointments(rows, 0))))

\* Friday 2020-01-03 and Saturday 2020-01-04, at noon UTC
Friday == ParseDate(20200103) + 12
Saturday == ParseDate(20200104) + 12

\* a Completed cleaning and a new patient's No-Show at LOC001 on Friday, a new
\* patient's No-Show at LOC002 on Friday, a Canceled visit at LOC002 on Saturday
QuietWeek ==
  WrittenBy(<<[v |-> Visit(0, 1, Population[1], Friday, 900, 1, 1, 0),
               rs |-> <<DrawOf(2)>>],
              [v |-> Visit(1, 2, Population[2], Friday, 900, 1, 2, 0),
               rs |-> <<DrawOf(4)>>],
              [v |-> Visit(2, 2, Population[2], Friday, 900, 2, 2, 0),
               rs |-> <<DrawOf(4)>>],
              [v |-> Visit(3, 1, Population[1], Saturday, 900, 2, 3, 0),
               rs |-> <<DrawOf(4)>>]>>)

\* twelve Completed dentures (100 minutes each) at LOC002 on Saturday
BusySaturday ==
  WrittenBy([k \in 1..4 |->
               [v |-> Visit(k - 1, 1, Population[1], Saturday, 900, 2, 1, 0),
                rs |-> <<DrawOf(5), DrawOf(5), DrawOf(5)>>]])

\* a visit of each status at LOC001 on Friday, and a Completed filling and a
\* Completed denture at LOC002 on Saturday
FourStatuses ==
  WrittenBy([k \in 1..6 |->
               IF k <= 4
               THEN [v |-> Visit(k - 1, 1, Population[1], Friday, 900, 1, k, 0),
                     rs |-> <<DrawOf(4)>>]
               ELSE [v |-> Visit(k - 1, 2, Population[2], Saturday, 900, 2, 1, 0),
                     rs |-> <<DrawOf(k - 1)>>]])

AppointmentFiles ==
  {AbsentFile, UnreadableFile, MalformedFile, QuietWeek, BusySaturday, FourStatuses}

OperationsFiles == {"Dental_Operations_Data.csv", "Dental_Staff_Hours_Data.csv",
                    "Dental_Equipment_Usage_Data.csv"}

\* a directory holding at most an appointment file and the given tables,
\* and main() about to run
InitOpsWith(Files, Tables) ==
  /\ tz \in TimeZones
  /\ \E file \in Files :
       fs = [n \in FileNames |->
               IF n = "Pat_App_Data.csv" THEN file
               ELSE IF n \in OperationsFiles THEN Tables[n] ELSE AbsentFile]
  /\ console = <<>>
  /\ patients = Population
  /\ i = 0
  /\ appointments = NoAppointments.appointments
  /\ patientLastCleaningDate = NoAppointments.last
  /\ activeTreatmentPlans = NoAppointments.plans
  /\ opsPc = "main"
  /\ appointmentData = <<>>
  /\ date = 0
  /\ operationsData = <<>>
  /\ staffHoursData = <<>>
  /\ equipmentUsageData = <<>>
  /\ FinIdle

InitOps == InitOpsWith(AppointmentFiles, [n \in OperationsFiles |-> AbsentFile])

\* a main() that goes on with an empty index when the file cannot be read
ReadAppointmentData_Tolerant ==
  /\ opsPc = "main"
  /\ LET file == fs["Pat_App_Data.csv"]
     IN /\ console' = console \o
             <<"Reading appointment data and generating operations data...",
               "Successfully processed appointment data">>
        /\ appointmentData' = IF file.state \in {"absent", "unreadable"} THEN <<>>
                               ELSE readAppointmentData(file)
        /\ date' = START_DATE(tz)
        /\ opsPc' = "loop"
  /\ UNCHANGED <<tz, fs, appVars, operationsData, staffHoursData,
                 equipmentUsageData, finVars>>

\* main() up to the settling of readAppointmentData(): a read error rejects
\* the promise and main's catch logs it, which ends the run
ReadAppointmentData ==
  /\ opsPc = "main"
  /\ LET file == fs["Pat_App_Data.csv"]
     IN IF file.state \in {"absent", "unreadable"}
        THEN /\ console' = console \o
                  <<"Reading appointment data and generating operations data...",
                    "Error reading appointment data file:",
                    "Error generating operations data:">>
             /\ opsPc' = "failed"
             /\ UNCHANGED <<appointmentData, date>>
        ELSE /\ console' = console \o
                  <<"Reading appointment data and generating operations data...",
                    "Successfully processed appointment data">>
             /\ appointmentData' = readAppointmentData(file)
             /\ date' = START_DATE(tz)
             /\ opsPc' = "loop"
  /\ UNCHANGED <<tz, fs, appVars, operationsData, staffHoursData,
                 equipmentUsageData, finVars>>

\* one iteration of the date loop; the iteration that ends the loop is
\* followed by main's three writes
GenerateDayWith(Draws) ==
  /\ opsPc = "loop"
  /\ \E us \in Draws :
     \E daily \in {LocationLoop(date, 1, appointmentData, us, tz)} :
       LET ops == operationsData \o [k \in 1..Len(daily) |-> OperationsRow(daily[k])]
           staff == staffHoursData
                      \o Flatten([k \in 1..Len(daily) |-> StaffHoursRows(daily[k])])
           equip == equipmentUsageData
                      \o Flatten([k \in 1..Len(daily) |-> EquipmentUsageRows(daily[k])])
           next == AddDays(date, 1)
       IN /\ operationsData' = ops
          /\ staffHoursData' = staff
          /\ equipmentUsageData' = equip
          /\ date' = next
          /\ IF next <= END_DATE(tz) /\ next < AddDays(START_DATE(tz), OPS_DAYS)
             THEN UNCHANGED <<opsPc, fs, console>>
             ELSE /\ opsPc' = "done"
                  /\ fs' = [n \in FileNames |->
                              CASE n = "Dental_Operations_Data.csv" ->
                                     FileOf(convertToCSV(ops))
                                [] n = "Dental_Staff_Hours_Data.csv" ->
                                     FileOf(convertToCSV(staff))
                                [] n = "Dental_Equipment_Usage_Data.csv" ->
                                     FileOf(convertToCSV(equip))
                                [] OTHER -> fs[n]]
                  /\ console' = console \o
                       <<"Saving data to CSV files...",
                         "Data saved to 'Dental_Operations_Data.csv', 'Dental_Staff_Hours_Data.csv', and 'Dental_Equipment_Usage_Data.csv'">>
  /\ UNCHANGED <<tz, appVars, appointmentData, finVars>>

GenerateDay == GenerateDayWith([1..Len(operationsLocations) -> {0, 1}])

NextOps == ReadAppointmentData \/ GenerateDay

SpecOps == InitOps /\ [][NextOps]_vars

\* the three tables of an earlier run: Friday 2020-01-03 at LOC001
EarlierTables ==
  LET earlier == DailyRecord(Friday, operationsLocations[1], <<>>, 0, 0)
  IN [n \in OperationsFiles |->
        CASE n = "Dental_Operations_Data.csv" ->
               FileOf(convertToCSV(<<OperationsRow(earlier)>>))
          [] n = "Dental_Staff_Hours_Data.csv" ->
               FileOf(convertToCSV(StaffHoursRows(earlier)))
          [] n = "Dental_Equipment_Usage_Data.csv" ->
               FileOf(convertToCSV(EquipmentUsageRows(earlier)))]

\* the Operations Generator run again in a directory that holds them
InitRerun == InitOpsWith({AbsentFile, UnreadableFile, QuietWeek}, EarlierTables)

SpecRerun == InitRerun /\ [][NextOps]_vars

----------------------------------------------------------------------------
(* Financial Generator (part_000, lines 1 to 1008): catalogs and helpers *)

\* the columns of the location table that the modelled columns read, in the
\* order of the table, which is also the order of the ids
financialLocations ==
  <<[id |-> "LOC001", opened_date |-> 20150315, monthly_rent |-> 12800,
     target_collection_rate |-> 92],
    [id |-> "LOC002", opened_date |-> 20170622, monthly_rent |-> 9800,
     target_collection_rate |-> 90]>>

\* a.Location_ID.localeCompare(b.Location_ID) orders the ids as the table does
LocationRank(id) ==
  CHOOSE k \in 1..Len(financialLocations) : financialLocations[k].id = id

\* a cell that holds a number, and a cell that holds the text of a number
Number(v) == [type |-> "number", value |-> v]
Text(v) == [type |-> "string", value |-> v]

\* the value read from the texts 'Infinity' and '-Infinity'
Infinity == 1000000000

Abs(n) == IF n < 0 THEN 0 - n ELSE n

RECURSIVE Pow10(_)
Pow10(k) == IF k = 0 THEN 1 ELSE 10 * Pow10(k - 1)

\* n / d * 10^k rounded half up for n >= 0 and d > 0, by long division
RECURSIVE Digits(_, _, _)
Digits(n, d, k) ==
  IF k = 0 THEN (2 * n + d) \div (2 * d)
  ELSE (n \div d) * Pow10(k) + Digits((n % d) * 10, d, k - 1)

\* ((current - reference) / reference).toFixed(4), read back as a number of
\* ten-thousandths: '-0.0000' reads as 0, a division by 0 gives the texts
\* 'Infinity', '-Infinity' or 'NaN'
Change(current, reference) ==
  LET n == current - reference
  IN IF reference = 0
     THEN (IF n = 0 THEN NaN ELSE IF n > 0 THEN Infinity ELSE 0 - Infinity)
     ELSE IF (n >= 0) = (reference > 0)
          THEN Digits(Abs(n), Abs(reference), 4)
          ELSE 0 - Digits(Abs(n), Abs(reference), 4)

\* date.setMonth(date.getMonth() + 1), n times, of a date on the first day
\* of a local month
AddMonths(d, n, z) ==
  LET months == getFullYear(d, z) * 12 + getMonth(d, z) + n
  IN LocalMidnight(Ymd(months \div 12, (months % 12) + 1, 1), z)
       + ((d + z) % 24)

\* hundredths
getSeasonalFactor(d, u, z) ==
  LET month == getMonth(d, z)
  IN IF formatDate(d) \in holidays THEN randomFloatBetween(40, 60, u)
     ELSE IF month = 11 \/ month = 0 \/ month = 1 THEN randomFloatBetween(85, 95, u)
     ELSE IF month >= 2 /\ month <= 4 THEN randomFloatBetween(105, 115, u)
     ELSE IF month >= 5 /\ month <= 7 THEN randomFloatBetween(90, 110, u)
     ELSE randomFloatBetween(95, 105, u)

\* getGrowthFactor(date, location) of the Financial Generator, in units of
\* 1/24000; yearsSinceOpening is counted in months
financialGrowthFactor(d, location, u, z) ==
  LET locationOpenDate == ParseDate(location.opened_date)
      monthsSinceOpening ==
        (getFullYear(d, z) - getFullYear(locationOpenDate, z)) * 12
          + (getMonth(d, z) - getMonth(locationOpenDate, z))
      f == randomFloatBetween(90, 110, u)
  IN IF monthsSinceOpening < 24 THEN 24000 + monthsSinceOpening * 4 * f
     ELSE IF monthsSinceOpening < 48
          THEN 24000 + 9600 + ((monthsSinceOpening - 24) * 12 * f) \div 5
          ELSE 24000 + 15360 + ((monthsSinceOpening - 48) * 11 * f) \div 10

----------------------------------------------------------------------------
(* Financial Generator: readExistingData *)

EmptyAppointmentMonth ==
  [totalAppointments |-> 0, completedAppointments |-> 0,
   canceledAppointments |-> 0, noShowAppointments |-> 0,
   totalChargedAmount |-> 0, totalInsuranceCovered |-> 0, totalAmountPaid |-> 0,
   serviceCategoryCounts |-> <<>>, payorCounts |-> <<>>]

\* counts[name] = (counts[name] || 0) + 1 when the row is counted and the
\* name is not empty
CountName(counts, name, counted) ==
  IF counted /\ name # ""
  THEN [n \in DOMAIN counts \cup {name} |->
          IF n \in DOMAIN counts THEN counts[n] + Count(n = name) ELSE 1]
  ELSE counts

AddAppointment(m, row) ==
  LET status == row.Appointment_Status
      done == status = "Completed"
  IN [totalAppointments |-> m.totalAppointments + 1,
      completedAppointments |-> m.completedAppointments + Count(done),
      canceledAppointments |-> m.canceledAppointments + Count(status = "Canceled"),
      noShowAppointments |-> m.noShowAppointments + Count(status = "No-Show"),
      totalChargedAmount |->
        m.totalChargedAmount + (IF done THEN row.Charged_Amount ELSE 0),
      totalInsuranceCovered |->
        m.totalInsuranceCovered + (IF done THEN row.Insurance_Covered_Amount ELSE 0),
      totalAmountPaid |-> m.totalAmountPaid + (IF done THEN row.Amount_Paid ELSE 0),
      serviceCategoryCounts |->
        CountName(m.serviceCategoryCounts,
                  IF done THEN row.Procedure_Category ELSE "", done),
      payorCounts |-> CountName(m.payorCounts, row.Insurance_Provider, done)]

\* the columns of the operations index that the modelled columns read
EmptyOperationsMonth ==
  [daysInMonth |-> 0, totalAppointments |-> 0, totalNewPatients |-> 0,
   totalLaborCost |-> 0, avgChairUtilization |-> 0, avgCollectionRate |-> 0]

\* the two rates are summed here (hundredths) and averaged after the last line
AddOperationsDay(m, row) ==
  [daysInMonth |-> m.daysInMonth + 1,
   totalAppointments |-> m.totalAppointments + row.Actual_Appointments,
   totalNewPatients |-> m.totalNewPatients + row.New_Patient_Count,
   totalLaborCost |-> m.totalLaborCost + row.Total_Labor_Cost,
   avgChairUtilization |-> m.avgChairUtilization + row.Chair_Utilization,
   avgCollectionRate |-> m.avgCollectionRate + row.Actual_Collection_Rate]

\* the averages of each month over its days, in ten-thousandths
AverageMonths(index) ==
  [q \in DOMAIN index |->
     IF index[q].daysInMonth > 0
     THEN [index[q] EXCEPT
             !.avgChairUtilization = RoundDiv(@ * 100, index[q].daysInMonth),
             !.avgCollectionRate = RoundDiv(@ * 100, index[q].daysInMonth)]
     ELSE index[q]]

\* `${locationId}-${year}-${month}`
LocationMonth(row) == <<row.Location_ID, row.Year, row.Month>>

RECURSIVE MonthlyIndex(_, _, _, _)
MonthlyIndex(index, rows, k, ofAppointments) ==
  IF k > Len(rows) THEN index
  ELSE LET key == LocationMonth(rows[k])
           old == IF key \in DOMAIN index THEN index[key]
                  ELSE IF ofAppointments THEN EmptyAppointmentMonth
                  ELSE EmptyOperationsMonth
       IN Bind([q \in DOMAIN index \cup {key} |->
                  IF q # key THEN index[q]
                  ELSE IF ofAppointments THEN AddAppointment(old, rows[k])
                  ELSE AddOperationsDay(old, rows[k])],
               LAMBDA next : MonthlyIndex(next, rows, k + 1, ofAppointments))

\* the key of a line without the expected columns: 'undefined-NaN-NaN'
UndefinedMonth == <<"undefined", NaN, NaN>>

\* the index built from one file: empty when the file is missing or cannot
\* be read, one all-zero bucket per line of a file of another shape
appointmentsByLocationMonth(file) ==
  IF file.state = "malformed"
  THEN [q \in {UndefinedMonth} |-> [EmptyAppointmentMonth EXCEPT !.totalAppointments = 1]]
  ELSE MonthlyIndex(<<>>, file.rows, 1, TRUE)

operationsByLocationMonth(file) ==
  IF file.state = "malformed"
  THEN [q \in {UndefinedMonth} |-> [EmptyOperationsMonth EXCEPT !.daysInMonth = 1]]
  ELSE Bind(MonthlyIndex(<<>>, file.rows, 1, FALSE), AverageMonths)

\* what the read of one file logs
ReadLog(file, What, what) ==
  CASE file.state = "absent" ->
         What \o " data file not found, will generate synthetic data"
    [] file.state = "unreadable" -> "Error reading " \o what \o " data:"
    [] OTHER -> "Successfully processed " \o what \o " data"

----------------------------------------------------------------------------
(* Financial Generator: generateMonthlyFinancialData *)

\* Math.round(totalRevenue * randomFloatBetween(min, max)), shares in
\* thousandths
Share(totalRevenue, min, max, u) ==
  RoundDiv(totalRevenue * randomFloatBetween(min, max, u), 1000)

\* the two indices when neither file is found
NoExistingData ==
  [appointmentsByLocationMonth |-> <<>>, operationsByLocationMonth |-> <<>>]

\* totalRevenue: the month's charges of the appointment index when it holds
\* any, else a base drawn for the location, scaled by season and growth (the
\* bases drawn are multiples of 10000, which keeps the product small)
TotalRevenueOf(d, location, existingData_, u, z) ==
  LET lookupKey == <<location.id, getFullYear(d, z), getMonth(d, z) + 1>>
      index == existingData_.appointmentsByLocationMonth
      baseRevenue ==
        IF location.id = "LOC001" THEN randomFloatBetween(180000, 220000, u)
        ELSE IF location.id = "LOC002" THEN randomFloatBetween(140000, 170000, u)
        ELSE IF location.id = "LOC004" THEN randomFloatBetween(120000, 150000, u)
        ELSE randomFloatBetween(100000, 130000, u)
  IN IF lookupKey \in DOMAIN index /\ index[lookupKey].totalChargedAmount > 0
     THEN index[lookupKey].totalChargedAmount
     ELSE RoundDiv((baseRevenue \div 10000) * getSeasonalFactor(d, u, z)
                     * financialGrowthFactor(d, location, u, z), 240)

TotalRevenue_Synthesized(d, location, existingData_, u, z) ==
  TotalRevenueOf(d, location, NoExistingData, u, z)

TotalRevenue(d, location, existingData_, u, z) ==
  TotalRevenueOf(d, location, existingData_, u, z)

\* serviceCategories with the column and the weight (hundredths) of each
serviceCategories ==
  <<[name |-> "Diagnostic", column |-> "Revenue_Diagnostic", weight |-> 10],
    [name |-> "Preventive", column |-> "Revenue_Preventive", weight |-> 20],
    [name |-> "Restorative", column |-> "Revenue_Restorative", weight |-> 25],
    [name |-> "Endodontic", column |-> "Revenue_Endodontic", weight |-> 8],
    [name |-> "Periodontic", column |-> "Revenue_Periodontic", weight |-> 7],
    [name |-> "Prosthodontic", column |-> "Revenue_Prosthodontic", weight |-> 10],
    [name |-> "Oral Surgery", column |-> "Revenue_Oral_Surgery", weight |-> 5],
    [name |-> "Orthodontic", column |-> "Revenue_Orthodontic", weight |-> 8],
    [name |-> "Implant", column |-> "Revenue_Implant", weight |-> 5],
    [name |-> "Adjunctive", column |-> "Revenue_Adjunctive", weight |-> 2]>>

\* the Financial Generator's insuranceProviders with the column and the
\* weight (hundredths) of each
payors ==
  <<[name |-> "Delta Dental", column |-> "Payor_Delta_Dental", weight |-> 30],
    [name |-> "Cigna Dental", column |-> "Payor_Cigna_Dental", weight |-> 15],
    [name |-> "Aetna", column |-> "Payor_Aetna", weight |-> 12],
    [name |-> "MetLife", column |-> "Payor_MetLife", weight |-> 10],
    [name |-> "Guardian", column |-> "Payor_Guardian", weight |-> 8],
    [name |-> "United Healthcare", column |-> "Payor_United_Healthcare", weight |-> 5],
    [name |-> "No Insurance", column |-> "Payor_Self_Pay", weight |-> 20]>>

\* the sum of the counts of an index entry
RECURSIVE TotalCount(_, _)
TotalCount(counts, names) ==
  IF names = {} THEN 0
  ELSE LET n == CHOOSE x \in names : TRUE
       IN counts[n] + TotalCount(counts, names \ {n})

\* serviceRevenue and payorMix, by column: the revenue split in proportion to
\* the counts of the appointment index when it has any, else in proportion
\* to the weights, each times a factor drawn between 0.85 and 1.15 (the
\* draws alternate low and high along the table); every share is rounded
RevenueSplit(table, counts, totalRevenue, u) ==
  LET jittered == [k \in 1..Len(table) |->
                     table[k].weight * randomFloatBetween(85, 115, (k + u) % 2)]
      counted == [k \in 1..Len(table) |->
                    IF table[k].name \in DOMAIN counts THEN counts[table[k].name]
                    ELSE 0]
  IN Bind(IF DOMAIN counts # {} THEN TotalCount(counts, DOMAIN counts)
          ELSE Sum(jittered),
          LAMBDA total :
            [c \in {table[k].column : k \in 1..Len(table)} |->
               LET k == CHOOSE n \in 1..Len(table) : table[n].column = c
               IN IF DOMAIN counts # {}
                  THEN MulDivRound(totalRevenue, counted[k], total)
                  ELSE MulDivRound(totalRevenue, jittered[k], total)])

\* expenseData, in the order its keys are set
ExpenseData(totalRevenue, location, lookupKey, existingData_, u) ==
  LET index == existingData_.operationsByLocationMonth
      fromOperations ==
        lookupKey \in DOMAIN index /\ index[lookupKey].totalLaborCost > 0
  IN [Labor_Clinical |->
        IF fromOperations THEN RoundDiv(index[lookupKey].totalLaborCost * 75, 100)
        ELSE Share(totalRevenue, 180, 220, u),
      Labor_Administrative |->
        IF fromOperations THEN RoundDiv(index[lookupKey].totalLaborCost * 25, 100)
        ELSE Share(totalRevenue, 60, 100, u),
      Supplies_Clinical |-> Share(totalRevenue, 50, 80, u),
      Supplies_Office |-> Share(totalRevenue, 10, 20, u),
      Rent_Lease |->
        RoundDiv(location.monthly_rent * randomFloatBetween(98, 102, u), 100),
      Utilities |-> Share(totalRevenue, 10, 30, u),
      Equipment_Costs |-> Share(totalRevenue, 30, 50, u),
      Marketing |-> Share(totalRevenue, 30, 70, u),
      Insurance |-> Share(totalRevenue, 20, 40, u),
      Professional_Fees |-> Share(totalRevenue, 20, 40, u),
      Continuing_Education |-> Share(totalRevenue, 5, 15, u),
      Lab_Fees |-> Share(totalRevenue, 60, 100, u),
      Software_IT |-> Share(totalRevenue, 10, 30, u),
      Travel |-> Share(totalRevenue, 5, 15, u),
      Miscellaneous |-> Share(totalRevenue, 10, 30, u)]

\* the precedence with the appointment index consulted first
collectionRatio_AppointmentsFirst(location, lookupKey, existingData_, u) ==
  LET operations == existingData_.operationsByLocationMonth
      appointments_ == existingData_.appointmentsByLocationMonth
  IN IF lookupKey \in DOMAIN appointments_
        /\ appointments_[lookupKey].totalChargedAmount > 0
     THEN [num |-> appointments_[lookupKey].totalAmountPaid,
           den |-> appointments_[lookupKey].totalChargedAmount]
     ELSE IF lookupKey \in DOMAIN operations
             /\ operations[lookupKey].avgCollectionRate > 0
     THEN [num |-> operations[lookupKey].avgCollectionRate, den |-> 10000]
     ELSE [num |-> 100 * randomFloatBetween(
                           Max(60, location.target_collection_rate - 10),
                           Min(98, location.target_collection_rate + 5), u),
           den |-> 10000]

\* collectionRate as a fraction num / den: the month's average of the
\* operations index (kept to four decimals), else paid over charged of the
\* appointment index, else drawn around the location's target
collectionRatio(location, lookupKey, existingData_, u) ==
  LET operations == existingData_.operationsByLocationMonth
      appointments_ == existingData_.appointmentsByLocationMonth
  IN IF lookupKey \in DOMAIN operations /\ operations[lookupKey].avgCollectionRate > 0
     THEN [num |-> operations[lookupKey].avgCollectionRate, den |-> 10000]
     ELSE IF lookupKey \in DOMAIN appointments_
             /\ appointments_[lookupKey].totalChargedAmount > 0
     THEN [num |-> appointments_[lookupKey].totalAmountPaid,
           den |-> appointments_[lookupKey].totalChargedAmount]
     ELSE [num |-> 100 * randomFloatBetween(
                           Max(60, location.target_collection_rate - 10),
                           Min(98, location.target_collection_rate + 5), u),
           den |-> 10000]

\* collectionRate.toFixed(4), ten-thousandths
collectionRate(location, lookupKey, existingData_, u) ==
  Bind(collectionRatio(location, lookupKey, existingData_, u),
       LAMBDA ratio : RoundDiv(ratio.num * 10000, ratio.den))

\* Math.round(totalRevenue * collectionRate)
collectionsActual(totalRevenue, location, lookupKey, existingData_, u) ==
  Bind(collectionRatio(location, lookupKey, existingData_, u),
       LAMBDA ratio : MulDivRound(totalRevenue, ratio.num, ratio.den))

\* numberOfProcedures, completedProcedures and cancelledProcedures: counted by
\* the appointment index, else taken from the operations index, else
\* estimated from the revenue
ProcedureData(totalRevenue, lookupKey, existingData_, u) ==
  LET operations == existingData_.operationsByLocationMonth
      appointments_ == existingData_.appointmentsByLocationMonth
  IN IF lookupKey \in DOMAIN appointments_
     THEN LET completed == appointments_[lookupKey].completedAppointments
              cancelled == appointments_[lookupKey].canceledAppointments
                             + appointments_[lookupKey].noShowAppointments
          IN [numberOfProcedures |-> completed + cancelled,
              completedProcedures |-> completed, cancelledProcedures |-> cancelled]
     ELSE IF lookupKey \in DOMAIN operations
     THEN LET completed == operations[lookupKey].totalAppointments
              cancelled == RoundDiv(completed * randomFloatBetween(2, 8, u), 100)
          IN [numberOfProcedures |-> completed + cancelled,
              completedProcedures |-> completed, cancelledProcedures |-> cancelled]
     ELSE LET number == RoundDiv(totalRevenue, randomFloatBetween(200, 300, u))
              completed == RoundDiv(number * randomFloatBetween(92, 98, u), 100)
          IN [numberOfProcedures |-> number, completedProcedures |-> completed,
              cancelledProcedures |-> number - completed]

\* patientVisits and newPatients: the month's totals of the operations index,
\* else estimated from the number of procedures
PatientData(numberOfProcedures, lookupKey, existingData_, u) ==
  LET operations == existingData_.operationsByLocationMonth
  IN IF lookupKey \in DOMAIN operations
     THEN [patientVisits |-> operations[lookupKey].totalAppointments,
           newPatients |-> operations[lookupKey].totalNewPatients]
     ELSE LET patientVisits == RoundDiv(numberOfProcedures * 7, 10)
          IN [patientVisits |-> patientVisits,
              newPatients |->
                RoundDiv(patientVisits * randomFloatBetween(15, 25, u), 100)]

\* chairUtilization, ten-thousandths: the month's average of the operations
\* index, else drawn between 0.7 and 0.9
chairUtilization(lookupKey, existingData_, u) ==
  LET operations == existingData_.operationsByLocationMonth
  IN IF lookupKey \in DOMAIN operations /\ operations[lookupKey].avgChairUtilization > 0
     THEN operations[lookupKey].avgChairUtilization
     ELSE randomFloatBetween(7000, 9000, u)

ExpenseColumns ==
  <<"Labor_Clinical", "Labor_Administrative", "Supplies_Clinical",
    "Supplies_Office", "Rent_Lease", "Utilities", "Equipment_Costs",
    "Marketing", "Insurance", "Professional_Fees", "Continuing_Education",
    "Lab_Fees", "Software_IT", "Travel", "Miscellaneous">>

\* appointmentData of the month: the entry of the index, or an entry without
\* counts where the code finds undefined
AppointmentMonthOf(existingData_, lookupKey) ==
  IF lookupKey \in DOMAIN existingData_.appointmentsByLocationMonth
  THEN existingData_.appointmentsByLocationMonth[lookupKey]
  ELSE EmptyAppointmentMonth

\* the record of one month of one location: its identity, revenue, expense,
\* EBITDA, collection, procedure, patient, chair and comparative columns
generateMonthlyFinancialData(d, location, existingData_, u, z) ==
  LET year == getFullYear(d, z)
      month == getMonth(d, z) + 1
      lookupKey == <<location.id, year, month>>
  IN Bind(TotalRevenue(d, location, existingData_, u, z), LAMBDA totalRevenue :
     Bind(ExpenseData(totalRevenue, location, lookupKey, existingData_, u),
          LAMBDA expenseData :
     Bind(Sum([k \in 1..Len(ExpenseColumns) |-> expenseData[ExpenseColumns[k]]]),
          LAMBDA totalExpenses :
     Bind(ProcedureData(totalRevenue, lookupKey, existingData_, u),
          LAMBDA procedureData :
     Bind(PatientData(procedureData.numberOfProcedures, lookupKey, existingData_, u),
          LAMBDA patientData :
       RowColumns(
         RowColumns(
           RowColumns(expenseData,
                      RevenueSplit(serviceCategories,
                                   AppointmentMonthOf(existingData_, lookupKey).serviceCategoryCounts,
                                   totalRevenue, u)),
           RevenueSplit(payors,
                        AppointmentMonthOf(existingData_, lookupKey).payorCounts,
                        totalRevenue, u)),
         [Financial_ID |-> lookupKey,
          Location_ID |-> location.id,
          Date |-> formatDate(d),
          Year |-> year,
          Month |-> month,
          Total_Revenue |-> totalRevenue,
          Total_Expenses |-> totalExpenses,
          EBITDA |-> totalRevenue - totalExpenses,
          Collection_Rate |-> collectionRate(location, lookupKey, existingData_, u),
          Collections_Actual |->
            collectionsActual(totalRevenue, location, lookupKey, existingData_, u),
          Total_Procedures |-> procedureData.numberOfProcedures,
          Completed_Procedures |-> procedureData.completedProcedures,
          Cancelled_Procedures |-> procedureData.cancelledProcedures,
          Total_Patient_Visits |-> patientData.patientVisits,
          New_Patients |-> patientData.newPatients,
          Chair_Utilization |-> chairUtilization(lookupKey, existingData_, u),
          Revenue_MoM_Change |-> Number(0),
          Revenue_YoY_Change |-> Number(0),
          EBITDA_MoM_Change |-> Number(0),
          EBITDA_YoY_Change |-> Number(0)]))))))

----------------------------------------------------------------------------
(* Financial Generator: generateFinancialDataset and main *)

\* the first day of the local month of the later of the opening date and
\* START_DATE, at that date's time of day
StartDate(location, z) ==
  LET locationOpenDate == ParseDate(location.opened_date)
      startDate == IF locationOpenDate > START_DATE(z) THEN locationOpenDate
                   ELSE START_DATE(z)
  IN AddDays(startDate, 1 - DayOf(LocalDate(startDate, z)))

\* the rows of one location: a row a month while currentDate <= END_DATE,
\* and for cap months at most
MonthLoopUpTo(location, existingData_, us, z, cap) ==
  LET startDate == StartDate(location, z)
      months == Cardinality({k \in 1..cap :
                               AddMonths(startDate, k - 1, z) <= END_DATE(z)})
  IN [k \in 1..months |->
        generateMonthlyFinancialData(AddMonths(startDate, k - 1, z), location,
                                     existingData_, us[k], z)]

MonthLoop(location, existingData_, us, z) ==
  MonthLoopUpTo(location, existingData_, us, z, FIN_MONTHS)

\* sort by Location_ID, then by new Date(Date); the sort is stable
SortFinancial(s) ==
  Bind([k \in 1..Len(s) |->
          <<LocationRank(s[k].Location_ID), ParseDate(s[k].Date)>>],
       LAMBDA key :
         LET Before(j, k) ==
               \/ key[j][1] < key[k][1]
               \/ key[j][1] = key[k][1] /\ key[j][2] < key[k][2]
               \/ key[j] = key[k] /\ j < k
         IN Bind([k \in 1..Len(s) |->
                    Cardinality({j \in 1..Len(s) : Before(j, k)}) + 1],
                 LAMBDA rank :
                   [at \in 1..Len(s) |-> s[CHOOSE k \in 1..Len(s) : rank[k] = at]]))

\* the row taken for every row but the first by a pass that compares
\* neighbours
prevMonth_PreviousRow(data, at) == at - 1

prevMonth(data, at) ==
  LET current == data[at]
  IN FindBy(data, LAMBDA item :
       /\ item.Location_ID = current.Location_ID
       /\ item.Year = (IF current.Month = 1 THEN current.Year - 1 ELSE current.Year)
       /\ item.Month = (IF current.Month = 1 THEN 12 ELSE current.Month - 1))

prevYear(data, at) ==
  LET current == data[at]
  IN FindBy(data, LAMBDA item :
       /\ item.Location_ID = current.Location_ID
       /\ item.Year = current.Year - 1
       /\ item.Month = current.Month)

\* a pass that formats the four change columns of every row, 0.0000 for a row
\* without a reference row
ComparativePass_Formatted(data) ==
  [at \in 1..Len(data) |->
     [data[at] EXCEPT !.Revenue_MoM_Change = Text(0), !.EBITDA_MoM_Change = Text(0),
                      !.Revenue_YoY_Change = Text(0), !.EBITDA_YoY_Change = Text(0)]]

\* the comparative pass: it reads Total_Revenue and EBITDA, which it does not
\* write, so every row is rewritten from the rows as they were
ComparativePass(data) ==
  [at \in 1..Len(data) |->
     LET current == data[at]
     IN Bind(prevMonth(data, at), LAMBDA pm :
        Bind(prevYear(data, at), LAMBDA py :
          [current EXCEPT
             !.Revenue_MoM_Change =
               IF pm = 0 THEN @
               ELSE Text(Change(current.Total_Revenue, data[pm].Total_Revenue)),
             !.EBITDA_MoM_Change =
               IF pm = 0 THEN @ ELSE Text(Change(current.EBITDA, data[pm].EBITDA)),
             !.Revenue_YoY_Change =
               IF py = 0 THEN @
               ELSE Text(Change(current.Total_Revenue, data[py].Total_Revenue)),
             !.EBITDA_YoY_Change =
               IF py = 0 THEN @ ELSE Text(Change(current.EBITDA, data[py].EBITDA))]))]

\* Math.random() over the months of a location: low, high, and alternating
RandomSequences ==
  {[k \in 1..FIN_MONTHS |-> 0], [k \in 1..FIN_MONTHS |-> 1],
   [k \in 1..FIN_MONTHS |-> k % 2], [k \in 1..FIN_MONTHS |-> (k + 1) % 2]}

\* Completed fillings at LOC001 on 2020-01-03, 2020-02-03 and 2021-01-04
SteadyMonths ==
  WrittenBy([k \in 1..3 |->
               [v |-> Visit(k - 1, 1, Population[1],
                            ParseDate(<<20200103, 20200203, 20210104>>[k]) + 12,
                            900, 1, 1, 0),
                rs |-> <<DrawOf(4)>>]])

\* the operations table of Friday 2020-01-03 at LOC001
OperationsDay ==
  FileOf(convertToCSV(<<OperationsRow(DailyRecord(Friday, operationsLocations[1],
                                                  <<>>, 0, 0))>>))

FinancialAppointmentFiles ==
  {AbsentFile, UnreadableFile, MalformedFile, QuietWeek, SteadyMonths}
FinancialOperationsFiles == {AbsentFile, UnreadableFile, OperationsDay}

\* a directory holding at most an appointment file and a file named
\* Operations_Data.csv, and main() about to run
InitFinWith(AppointmentTables, OperationsTables) ==
  /\ tz \in TimeZones
  /\ \E a \in AppointmentTables :
     \E o \in OperationsTables :
       fs = [n \in FileNames |->
               IF n = "Pat_App_Data.csv" THEN a
               ELSE IF n = "Operations_Data.csv" THEN o ELSE AbsentFile]
  /\ console = <<>>
  /\ patients = Population
  /\ i = 0
  /\ appointments = NoAppointments.appointments
  /\ patientLastCleaningDate = NoAppointments.last
  /\ activeTreatmentPlans = NoAppointments.plans
  /\ OpsIdle
  /\ finPc = "main"
  /\ existingData = <<>>
  /\ finLocation = 0
  /\ financialData = <<>>

InitFin == InitFinWith(FinancialAppointmentFiles, FinancialOperationsFiles)

\* main() up to the settling of readExistingData(), which always resolves
ReadExistingDataFrom(appointmentsFile, operationsFile) ==
  /\ finPc = "main"
  /\ existingData' =
       [appointmentsByLocationMonth |->
          appointmentsByLocationMonth(fs[appointmentsFile]),
        operationsByLocationMonth |->
          operationsByLocationMonth(fs[operationsFile])]
  /\ console' = console \o
       <<"Reading existing data and generating financial data...",
         ReadLog(fs[appointmentsFile], "Appointment", "appointment"),
         ReadLog(fs[operationsFile], "Operations", "operations")>>
  /\ finLocation' = 1
  /\ finPc' = "locations"
  /\ UNCHANGED <<tz, fs, appVars, opsVars, financialData>>

ReadExistingData_OperationsTable ==
  ReadExistingDataFrom("Pat_App_Data.csv", "Dental_Operations_Data.csv")

ReadExistingData == ReadExistingDataFrom("Pat_App_Data.csv", "Operations_Data.csv")

\* one iteration of the location loop; the iteration that ends the loop is
\* followed by the sort, the comparative pass and main's write
GenerateLocationOver(Sequences, cap) ==
  /\ finPc = "locations"
  /\ \E us \in Sequences :
     \E data \in {financialData
                    \o MonthLoopUpTo(financialLocations[finLocation], existingData,
                                     us, tz, cap)} :
       IF finLocation < Len(financialLocations)
       THEN /\ financialData' = data
            /\ finLocation' = finLocation + 1
            /\ UNCHANGED <<finPc, fs, console>>
       ELSE \E sorted \in {SortFinancial(data)} :
            \E financialDataset \in {ComparativePass(sorted)} :
              /\ financialData' = financialDataset
              /\ fs' = writeFileSync(fs, "Financial_Data.csv",
                                     convertToCSV(financialDataset))
              /\ console' = console \o <<"Generated financial records",
                                         "Data saved to \"Financial_Data.csv\"">>
              /\ finPc' = "done"
              /\ UNCHANGED finLocation
  /\ UNCHANGED <<tz, appVars, opsVars, existingData>>

GenerateLocationWith(Sequences) == GenerateLocationOver(Sequences, FIN_MONTHS)

GenerateLocation == GenerateLocationWith(RandomSequences)

NextFin == ReadExistingData \/ GenerateLocation

SpecFin == InitFin /\ [][NextFin]_vars

\* the Financial Generator with its month loop run to END_DATE
InitAllMonths == InitFinWith({AbsentFile, SteadyMonths}, {AbsentFile})

\* Math.random() over the months: low, high, and alternating
GenerateAllMonths ==
  GenerateLocationOver({[k \in 1..ALL_MONTHS |-> 0], [k \in 1..ALL_MONTHS |-> 1],
                        [k \in 1..ALL_MONTHS |-> k % 2],
                        [k \in 1..ALL_MONTHS |-> (k + 1) % 2]},
                       ALL_MONTHS)

NextAllMonths == ReadExistingData \/ GenerateAllMonths

SpecAllMonths == InitAllMonths /\ [][NextAllMonths]_vars

----------------------------------------------------------------------------
(* the Appointment Generator with appointment times through the day *)

\* Completed visits of two fillings at 08:30 or 16:15
GenerateTimedVisit ==
  VisitIterationOn(VisitInstants, {830, 1615}, {1}, {1}, {2},
                   {r \in ProcedureDraws : r.opensPlan /\ r.totalProcedures = 1})

SpecTimes == InitApp /\ [][GenerateTimedVisit]_vars

----------------------------------------------------------------------------
(* the three generators run one after another in one working directory *)

\* instants randomDate() can return: noon UTC of Friday 2020-01-03 and of
\* Monday 2020-02-03
PipelineInstants == {ParseDate(20200103) + 12, ParseDate(20200203) + 12}

\* a generator is between the start and the end of its main()
AppointmentsRunning == 0 < i /\ i < NUM_RECORDS
OperationsRunning == opsPc \in {"main", "loop"}
FinancialRunning == finPc \in {"main", "locations"}
NoneRunning == ~AppointmentsRunning /\ ~OperationsRunning /\ ~FinancialRunning

\* node generate-pat-data.js: a Completed filling per visit
RunAppointments ==
  /\ ~OperationsRunning /\ ~FinancialRunning
  /\ VisitIterationAt(PipelineInstants, {1}, {1}, {1},
                      {r \in ProcedureDraws : r.opensPlan /\ r.totalProcedures = 1})

\* the Operations Generator is started
StartOperations ==
  /\ NoneRunning
  /\ opsPc = "idle"
  /\ opsPc' = "main"
  /\ UNCHANGED <<tz, fs, console, appVars, appointmentData, date, operationsData,
                 staffHoursData, equipmentUsageData, finVars>>

\* the Financial Generator is started
StartFinancial ==
  /\ NoneRunning
  /\ finPc = "idle"
  /\ finPc' = "main"
  /\ UNCHANGED <<tz, fs, console, appVars, opsVars, existingData, finLocation,
                 financialData>>

RunOperations ==
  ReadAppointmentData \/ GenerateDayWith({[k \in 1..Len(operationsLocations) |-> k % 2]})

RunFinancial ==
  ReadExistingData \/ GenerateLocationWith({[k \in 1..FIN_MONTHS |-> k % 2]})

NextRuns ==
  \/ RunAppointments
  \/ StartOperations
  \/ RunOperations
  \/ StartFinancial
  \/ RunFinancial

\* an empty working directory, and each generator run at most once, one at a
\* time, in any order
SpecRuns == InitApp /\ [][NextRuns]_vars

----------------------------------------------------------------------------
(* Properties of the Appointment Generator *)

Rows == {appointments[k] : k \in 1..Len(appointments)}

\* C1: every Completed row has Out_of_Pocket = Patient_Responsibility -
\* Discount_Applied, and its Amount_Paid is 0 or exactly Out_of_Pocket
C1_OutOfPocketIdentity ==
  \A a \in Rows :
    a.Appointment_Status = "Completed" =>
      /\ a.Out_of_Pocket = a.Patient_Responsibility - a.Discount_Applied
      /\ a.Amount_Paid \in {0, a.Out_of_Pocket}

\* an insured, discounted, paid Completed row
C1_Witness ==
  \E a \in Rows :
    /\ a.Appointment_Status = "Completed"
    /\ a.Insurance_Covered_Amount > 0
    /\ a.Discount_Applied > 0
    /\ a.Payment_Status = "Paid"
    /\ a.Amount_Paid = a.Out_of_Pocket
    /\ a.Out_of_Pocket < a.Patient_Responsibility

\* C2: every row whose status is not Completed carries the zero/empty default
\* in every financial, claim and treatment-plan field
C2_NonCompletedDefaults ==
  \A a \in Rows :
    a.Appointment_Status # "Completed" =>
      /\ a.Charged_Amount = 0 /\ a.Insurance_Covered_Amount = 0
      /\ a.Patient_Responsibility = 0 /\ a.Discount_Applied = 0
      /\ a.Out_of_Pocket = 0 /\ a.Amount_Paid = 0
      /\ a.Payment_Method = "" /\ a.Payment_Status = ""
      /\ a.Insurance_Claim_Status = ""
      /\ a.Insurance_Claim_Submission_Date = NoDate
      /\ a.Insurance_Claim_Payment_Date = NoDate
      /\ a.Treatment_Plan_ID = ""
      /\ a.Treatment_Plan_Creation_Date = NoDate
      /\ a.Treatment_Plan_Completion_Date = NoDate
      /\ a.Treatment_Plan_Completion_Rate = 0
      /\ a.Estimated_Total_Cost = 0

\* a No-Show row of an insured patient, for a visit whose draws would have
\* charged a Completed one
C2_Witness ==
  \E a \in Rows :
    /\ a.Appointment_Status = "No-Show"
    /\ a.Insurance_Provider = "Delta Dental"
    /\ a.Charged_Amount = 0

\* calendar month count of a 'YYYY-MM-DD' date
MonthIndex(d) == YearOf(d) * 12 + MonthOf(d)

\* the rows the step adds: those of visit i + 1
NewRows == {a \in {appointments'[k] : k \in 1..Len(appointments')} :
              a.Visit_ID = i + 1}

\* C3: once a cleaning is recorded for a patient in month M, a step records a
\* later cleaning for that patient only for a visit dated in month M+5 or
\* later, and every cleaning row a step adds leaves the patient's last-cleaning
\* date at that row's date
C3_RecallGating ==
  [][\A q \in PatientIds :
       /\ (/\ patientLastCleaningDate[q] # NoDate
           /\ patientLastCleaningDate'[q] # patientLastCleaningDate[q])
          => MonthIndex(patientLastCleaningDate'[q])
               >= MonthIndex(patientLastCleaningDate[q]) + 5
       /\ \A a \in NewRows :
            (a.Patient_ID = q /\ IsCleaning(a.Procedure_Code))
              => patientLastCleaningDate'[q] = a.Date_of_Service]_vars

\* the plan rows of patient q, and the latest of them in generation order
PlanRows(q) == {a \in Rows : a.Patient_ID = q /\ a.Treatment_Plan_ID # ""}
SamePlan(a, b) ==
  /\ a.Patient_ID = b.Patient_ID
  /\ a.Procedure_ID < b.Procedure_ID
  /\ ~\E c \in PlanRows(a.Patient_ID) :
        /\ a.Procedure_ID <= c.Procedure_ID /\ c.Procedure_ID < b.Procedure_ID
        /\ c.Treatment_Plan_Completion_Date # NoDate

\* C4: along the rows of one open plan the completion rate never decreases,
\* and a row carries 100 only if its procedure closes the plan: it has the
\* completion date and, being the patient's latest plan row, leaves no active plan
C4_PlanCompletionRate ==
  \A q \in PatientIds :
    /\ \A a, b \in PlanRows(q) :
         SamePlan(a, b) =>
           a.Treatment_Plan_Completion_Rate <= b.Treatment_Plan_Completion_Rate
    /\ \A a \in PlanRows(q) :
         a.Treatment_Plan_Completion_Rate = 100 =>
           /\ a.Treatment_Plan_Completion_Date # NoDate
           /\ (\A b \in PlanRows(q) : b.Procedure_ID <= a.Procedure_ID)
                => activeTreatmentPlans[q] = NoPlan

\* C7: when the run has written its file, every visit 1..NUM_RECORDS has
\* between 1 and 3 rows in it, and the file has at most NUM_RECORDS * 3 rows
C7_EveryVisitAppears ==
  fs["Pat_App_Data.csv"].state = "ok" =>
    LET rows == fs["Pat_App_Data.csv"].rows
    IN /\ \A visit \in 1..NUM_RECORDS :
            Cardinality({k \in 1..Len(rows) : rows[k].Visit_ID = visit}) \in 1..3
       /\ Len(rows) <= NUM_RECORDS * 3
----------------------------------------------------------------------------
(* Properties of the Operations Generator *)

\* day of the week of a 'YYYY-MM-DD' date, 0 = Sunday
DayOfWeek(d) == (DaysFromCivil(d) + 4) % 7

SeqRange(s) == {s[k] : k \in 1..Len(s)}

\* no row of the table is dated on a Sunday or a listed holiday
OpenDaysOnly(table) ==
  \A k \in 1..Len(table) :
    DayOfWeek(table[k].Date) # 0 /\ table[k].Date \notin holidays

\* C5: no operations, staff-hours or equipment-usage row, in memory or
\* written, is dated on a Sunday or on a date of the holiday list
C5_NoSundayNoHoliday ==
  /\ OpenDaysOnly(operationsData)
  /\ OpenDaysOnly(staffHoursData)
  /\ OpenDaysOnly(equipmentUsageData)
  /\ \A n \in OperationsFiles : OpenDaysOnly(fs[n].rows)

LocationOf(id) ==
  operationsLocations[CHOOSE k \in 1..Len(operationsLocations) :
                        operationsLocations[k].id = id]

AppointmentFileRows == SeqRange(fs["Pat_App_Data.csv"].rows)

\* the bucket drives the row: it holds minutes and charges
Derived(o) ==
  /\ <<o.Date, o.Location_ID>> \in DOMAIN appointmentData
  /\ appointmentData[<<o.Date, o.Location_ID>>].totalDuration > 0
  /\ appointmentData[<<o.Date, o.Location_ID>>].chargedAmount > 0

\* the appointment file has no row for the day and location of o
NoFileRows(o) ==
  ~\E a \in AppointmentFileRows :
      a.Date_of_Service = o.Date /\ a.Location_ID = o.Location_ID

\* C6: an operations row whose bucket holds minutes and charges reports
\* totalDuration/availableMinutes capped at 0.95 and amountPaid/chargedAmount;
\* a row whose day and location have no row in the file reports values
\* inside the ranges around the location's targets
C6_DerivedOrSynthesized ==
  \A o \in SeqRange(operationsData) :
    LET location == LocationOf(o.Location_ID)
        m == appointmentData[<<o.Date, o.Location_ID>>]
        minutes == location.chairs * location.operatingHours * 60
        target == location.target_chair_utilization * 10 + (o.Year - 2020) * 5
    IN /\ Derived(o) =>
            /\ o.Chair_Utilization =
                 Min(95, IF o.Day_of_Week = "Saturday"
                         THEN ToFixed(2 * m.totalDuration, minutes, 100)
                         ELSE ToFixed(m.totalDuration, minutes, 100))
            /\ o.Actual_Collection_Rate = ToFixed(m.amountPaid, m.chargedAmount, 100)
       /\ NoFileRows(o) =>
            /\ o.Chair_Utilization >= RoundDiv(Max(650, target - 100), 10)
            /\ o.Chair_Utilization <= RoundDiv(Min(950, target + 50), 10)
            /\ o.Actual_Collection_Rate >= Max(60, location.target_collection_rate - 10)
            /\ o.Actual_Collection_Rate <= Min(98, location.target_collection_rate + 5)

\* a derived row of LOC001 below every synthesized value, and the row of its
\* next day, which has no appointment
C6_Witness ==
  \E o, n \in SeqRange(operationsData) :
    /\ Derived(o) /\ o.Location_ID = "LOC001"
    /\ o.Chair_Utilization = 2 /\ o.Actual_Collection_Rate = 15
    /\ n.Location_ID = "LOC001" /\ NoFileRows(n)
    /\ DaysFromCivil(n.Date) = DaysFromCivil(o.Date) + 1
    /\ n.Chair_Utilization >= 75

OperationsRunEnded == opsPc \in {"done", "failed"}

\* C9: with Pat_App_Data.csv missing, the run of the Operations Generator
\* ends without failing, having written its operations table
C9_MissingFileTolerated ==
  (fs["Pat_App_Data.csv"].state = "absent" /\ OperationsRunEnded) =>
    /\ opsPc = "done"
    /\ fs["Dental_Operations_Data.csv"].state = "ok"

\* C10: with Pat_App_Data.csv present but malformed or unreadable, the run of
\* the Operations Generator gets no further than the read and no output table
\* is written
C10_BadFileIsFatal ==
  fs["Pat_App_Data.csv"].state \in {"malformed", "unreadable"} =>
    /\ opsPc \in {"main", "failed"}
    /\ \A n \in OperationsFiles : fs[n].state = "absent"

----------------------------------------------------------------------------
(* Properties of the Financial Generator *)

\* months counted from year 0
MonthNumber(r) == r.Year * 12 + r.Month

\* the rows of r's location that lie n months before r
RowsBefore(r, n) ==
  {q \in SeqRange(financialData) :
     q.Location_ID = r.Location_ID /\ MonthNumber(q) = MonthNumber(r) - n}

\* the two change columns of r that look n months back hold the rounded
\* (current - reference) / reference against the one row n months back, and
\* the number 0 when there is no such row
ComparedWith(r, n, revenueChange, ebitdaChange) ==
  /\ Cardinality(RowsBefore(r, n)) <= 1
  /\ \A ref \in RowsBefore(r, n) :
       /\ revenueChange = Text(Change(r.Total_Revenue, ref.Total_Revenue))
       /\ ebitdaChange = Text(Change(r.EBITDA, ref.EBITDA))
  /\ RowsBefore(r, n) = {} =>
       revenueChange = Number(0) /\ ebitdaChange = Number(0)

\* C8 (as the code has it): after the comparative pass every row's MoM
\* columns are (current - reference) / reference, rounded to four decimals,
\* against exactly the row of the preceding calendar month of its location,
\* and its YoY columns likewise against the same month of the previous year;
\* a row without such a row keeps 0; the file written holds these rows
C8_ChangesAgainstReferenceRow ==
  finPc = "done" =>
    /\ \A r \in SeqRange(financialData) :
         /\ ComparedWith(r, 1, r.Revenue_MoM_Change, r.EBITDA_MoM_Change)
         /\ ComparedWith(r, 12, r.Revenue_YoY_Change, r.EBITDA_YoY_Change)
    /\ fs["Financial_Data.csv"] = FileOf(convertToCSV(financialData))

\* the rows of a location, in the order of the table
RowsOf(id) == SelectSeq(financialData, LAMBDA r : r.Location_ID = id)

\* a table with fourteen months of each location in which, at LOC002, row 2
\* and row 13 carry non-zero changes computed against row 1, which itself
\* keeps its zeros, and the last row of LOC001 is not what row 1 is compared to
C8_Witness ==
  /\ finPc = "done"
  /\ LET rows == RowsOf("LOC002")
     IN /\ Len(rows) = FIN_MONTHS /\ Len(RowsOf("LOC001")) = FIN_MONTHS
        /\ rows[1].Revenue_MoM_Change = Number(0)
        /\ rows[1].EBITDA_YoY_Change = Number(0)
        /\ rows[2].Revenue_MoM_Change =
             Text(Change(rows[2].Total_Revenue, rows[1].Total_Revenue))
        /\ rows[2].Revenue_MoM_Change.value # 0
        /\ rows[2].Revenue_YoY_Change = Number(0)
        /\ rows[13].Revenue_YoY_Change =
             Text(Change(rows[13].Total_Revenue, rows[1].Total_Revenue))
        /\ rows[13].Revenue_YoY_Change.value # 0
        /\ rows[13].EBITDA_YoY_Change = Text(Change(rows[13].EBITDA, rows[1].EBITDA))
        /\ rows[13].EBITDA_YoY_Change.value # 0

\* C8 (as stated): the changes are computed against exactly the reference
\* row, and so, in a location's consecutive monthly rows, row 13 has a
\* non-zero Revenue_YoY_Change computed against row 1 and row 2 a non-zero
\* Revenue_MoM_Change computed against row 1
C8_NonZeroChanges ==
  finPc = "done" =>
    \A k \in 1..Len(financialLocations) :
      LET rows == RowsOf(financialLocations[k].id)
      IN /\ \A at \in 1..Len(rows) :
              /\ ComparedWith(rows[at], 1, rows[at].Revenue_MoM_Change,
                              rows[at].EBITDA_MoM_Change)
              /\ ComparedWith(rows[at], 12, rows[at].Revenue_YoY_Change,
                              rows[at].EBITDA_YoY_Change)
         /\ Len(rows) >= 2 =>
              /\ rows[2].Revenue_MoM_Change =
                   Text(Change(rows[2].Total_Revenue, rows[1].Total_Revenue))
              /\ rows[2].Revenue_MoM_Change.value # 0
         /\ Len(rows) >= 13 =>
              /\ rows[13].Revenue_YoY_Change =
                   Text(Change(rows[13].Total_Revenue, rows[1].Total_Revenue))
              /\ rows[13].Revenue_YoY_Change.value # 0

----------------------------------------------------------------------------
(* Properties of the Operations Generator: denominators and absent buckets *)

\* C11: no ratio of an operations row is computed with a zero denominator:
\* Insurance_Denial_Rate, claims denied over claims processed, is never the
\* text 'NaN' of 0 / 0
C11_NoZeroDenominator ==
  \A o \in SeqRange(operationsData) :
    /\ o.Insurance_Claims_Processed # 0
    /\ o.Insurance_Denial_Rate # NaN

\* the index has no bucket for the day and location of row o
NoBucket(o) == <<o.Date, o.Location_ID>> \notin DOMAIN appointmentData

\* C12: a row whose day and location have no bucket in the index reports no
\* literal zero taken from an empty bucket: its appointment counts, chair
\* utilization, collection rate and revenue per hour, chair and patient are
\* synthesized, and so are its equipment use counts
C12_AbsenceIsNotZeroActivity ==
  /\ \A o \in SeqRange(operationsData) :
       NoBucket(o) =>
         /\ o.Scheduled_Appointments # 0
         /\ o.Actual_Appointments # 0
         /\ o.Chair_Utilization # 0
         /\ o.Actual_Collection_Rate # 0
         /\ o.Revenue_Per_Hour # 0
         /\ o.Revenue_Per_Chair # 0
         /\ o.Revenue_Per_Patient # 0
  /\ \A e \in SeqRange(equipmentUsageData) : NoBucket(e) => e.Usage_Count # 0

----------------------------------------------------------------------------
(* Properties of the three generators run in one directory *)

\* the position of the first line msg of the console, 0 when it has none
Logged(msg) == FindBy(console, LAMBDA line : line = msg)

\* the generators were started in the order Appointment, Operations,
\* Financial, each after the one before had written its files, and the
\* Financial Generator has read its inputs
PipelineRun ==
  LET written == Logged("Data saved to 'Pat_App_Data.csv'")
      operations == Logged("Reading appointment data and generating operations data...")
      saving == Logged("Saving data to CSV files...")
      financial == Logged("Reading existing data and generating financial data...")
  IN 0 < written /\ written < operations /\ operations < saving /\ saving < financial

\* the Completed rows of Pat_App_Data.csv of the location, year and month of
\* the financial row r
CompletedOf(r) ==
  SelectSeq(fs["Pat_App_Data.csv"].rows,
            LAMBDA a : /\ a.Appointment_Status = "Completed"
                       /\ a.Location_ID = r.Location_ID
                       /\ a.Year = r.Year /\ a.Month = r.Month)

ChargedOf(r) ==
  Bind(CompletedOf(r), LAMBDA rows : Sum([k \in 1..Len(rows) |-> rows[k].Charged_Amount]))
PaidOf(r) ==
  Bind(CompletedOf(r), LAMBDA rows : Sum([k \in 1..Len(rows) |-> rows[k].Amount_Paid]))

LocationNamed(id) == financialLocations[LocationRank(id)]

\* labor cost, chair utilization, patient visits and new patients of row r are
\* what the code computes without an operations bucket for the month
NoOperationsBranch(r) ==
  LET lookupKey == <<r.Location_ID, r.Year, r.Month>>
  IN \E u \in {0, 1} :
       /\ r.Labor_Clinical = Share(r.Total_Revenue, 180, 220, u)
       /\ r.Labor_Administrative = Share(r.Total_Revenue, 60, 100, u)
       /\ r.Chair_Utilization = chairUtilization(lookupKey, NoExistingData, u)
       /\ r.Total_Patient_Visits = RoundDiv(r.Total_Procedures * 7, 10)
       /\ r.New_Patients = PatientData(r.Total_Procedures, lookupKey,
                                       NoExistingData, u).newPatients

\* Collection_Rate of row r is drawn around the location's target
SyntheticCollectionRate(r) ==
  \E u \in {0, 1} :
    r.Collection_Rate = collectionRate(LocationNamed(r.Location_ID),
                                       <<r.Location_ID, r.Year, r.Month>>,
                                       NoExistingData, u)

\* the Financial Generator found no Operations_Data.csv although the
\* Operations Generator had written its table, and its operations index is empty
OperationsNotFound ==
  /\ fs["Dental_Operations_Data.csv"].state = "ok"
  /\ fs["Operations_Data.csv"].state = "absent"
  /\ Logged("Operations data file not found, will generate synthetic data") # 0
  /\ DOMAIN existingData.operationsByLocationMonth = {}

\* C13: in a run Appointment, Operations, Financial from an empty directory
\* the Financial Generator does not find Operations_Data.csv, its operations
\* index is empty, and in every financial row labor cost, chair utilization,
\* patient visits and new patients come from the branch without operations
\* data; the collection rate is paid over charged of the month's Completed
\* appointments where these have a charged sum, and is drawn around the
\* location's target otherwise
C13_OperationsFileNotFound ==
  PipelineRun =>
    /\ OperationsNotFound
    /\ \A r \in SeqRange(financialData) :
         /\ NoOperationsBranch(r)
         /\ IF ChargedOf(r) > 0
            THEN r.Collection_Rate = RoundDiv(PaidOf(r) * 10000, ChargedOf(r))
            ELSE SyntheticCollectionRate(r)

\* the run has ended with a month whose collection rate comes from the
\* appointment file and a month whose collection rate is drawn
C13_Witness ==
  /\ PipelineRun /\ finPc = "done"
  /\ \E r \in SeqRange(financialData) : ChargedOf(r) > 0 /\ ~SyntheticCollectionRate(r)
  /\ \E r \in SeqRange(financialData) : ChargedOf(r) = 0

\* C13 as stated: every operations-derived metric of every financial row,
\* the collection rate included, comes from the fully synthetic path
C13_FullySynthetic ==
  PipelineRun =>
    /\ OperationsNotFound
    /\ \A r \in SeqRange(financialData) :
         NoOperationsBranch(r) /\ SyntheticCollectionRate(r)

\* the files whose content the step changes
Written == {n \in FileNames : fs'[n] # fs[n]}

\* C14: a step of the Appointment Generator changes no file but
\* Pat_App_Data.csv, a step of the Operations Generator no file but its three
\* tables, a step of the Financial Generator no file but Financial_Data.csv,
\* and no other step changes a file; so the files a generator reads are left
\* as they were
C14_OwnFilesOnly ==
  [][/\ i' # i => Written \subseteq {"Pat_App_Data.csv"}
     /\ OperationsRunning => Written \subseteq OperationsFiles
     /\ FinancialRunning => Written \subseteq {"Financial_Data.csv"}
     /\ (i' = i /\ ~OperationsRunning /\ ~FinancialRunning) => Written = {}]_vars

\* the three generators have run, the five tables are written, and the
\* appointment file is still the one the Appointment Generator wrote
C14_Witness ==
  /\ i = NUM_RECORDS /\ opsPc = "done" /\ finPc = "done"
  /\ \A n \in OperationsFiles \cup {"Financial_Data.csv"} : fs[n].state = "ok"
  /\ fs["Pat_App_Data.csv"] = FileOf(convertToCSV(appointments))
  /\ fs["Operations_Data.csv"] = AbsentFile

----------------------------------------------------------------------------
(* Properties of the Financial Generator: revenue and rows *)

\* the date the month loop passes for row r of a location opened before
\* START_DATE: local midnight of the first day of the row's month
MonthDate(r) == LocalMidnight(Ymd(r.Year, r.Month, 1), tz)

\* C15: Total_Revenue of a financial row is the sum of Charged_Amount over the
\* Completed rows of Pat_App_Data.csv with the row's Location_ID, Year and
\* Month when that sum is not zero, and else round(base * seasonal * growth)
\* for a base of the location's range
C15_TotalRevenue ==
  \A r \in SeqRange(financialData) :
    IF ChargedOf(r) > 0
    THEN r.Total_Revenue = ChargedOf(r)
    ELSE \E u \in {0, 1} :
           r.Total_Revenue = TotalRevenueOf(MonthDate(r), LocationNamed(r.Location_ID),
                                            NoExistingData, u, tz)

\* the run has ended with a month whose revenue is the sum of its Completed
\* charges and a month whose revenue is synthesized, the file holding rows of
\* other months only
C15_Witness ==
  /\ finPc = "done"
  /\ \E r \in SeqRange(financialData) :
       ChargedOf(r) > 0 /\ r.Total_Revenue = ChargedOf(r) /\ Len(CompletedOf(r)) > 0
  /\ \E r \in SeqRange(financialData) :
       /\ ChargedOf(r) = 0
       /\ r.Total_Revenue > 0
       /\ Len(fs["Pat_App_Data.csv"].rows) > 0

\* the calendar months, as year * 12 + month - 1, from the month of the later
\* of the opening date and 2020-01-01 through the month of 2025-04-01
MonthsOf(location) ==
  LET from == Max(location.opened_date, 20200101)
  IN (YearOf(from) * 12 + MonthOf(from) - 1)..(2025 * 12 + 3)

\* C16: the rows of the Financial Generator are, for each location, one row
\* for each month from the month of the later of its opening date and the
\* start date through the month of the end date, and no other row; no
\* location, year and month has two rows
C16_OneRowPerLocationMonth ==
  finPc = "done" =>
    /\ \A k \in 1..Len(financialLocations) :
         {r.Year * 12 + r.Month - 1 : r \in SeqRange(RowsOf(financialLocations[k].id))}
           = MonthsOf(financialLocations[k])
    /\ \A r \in SeqRange(financialData) :
         \E k \in 1..Len(financialLocations) : r.Location_ID = financialLocations[k].id
    /\ \A j, k \in 1..Len(financialData) :
         (/\ financialData[j].Location_ID = financialData[k].Location_ID
          /\ financialData[j].Year = financialData[k].Year
          /\ financialData[j].Month = financialData[k].Month) => j = k

\* the run has ended and the table holds 64 rows a location, the last of them
\* for April 2025
C16_Witness ==
  /\ finPc = "done"
  /\ Len(financialData) = 64 * Len(financialLocations)
  /\ \E r \in SeqRange(financialData) : r.Year = 2025 /\ r.Month = 4
  /\ fs["Financial_Data.csv"].state = "ok"

\* C19: a row carries a treatment plan, opened or advanced by its procedure,
\* only if the procedure is Completed and of category Restorative,
\* Endodontic, Prosthodontic or Implant
C19_PlanCategoriesOnly ==
  \A a \in Rows :
    a.Treatment_Plan_ID # "" =>
      /\ a.Appointment_Status = "Completed"
      /\ a.Procedure_Category \in PlanCategories

----------------------------------------------------------------------------
(* Properties of the Operations Generator: rows and the index *)

\* the days of the date range the run covers that are neither a Sunday nor
\* a listed holiday, as 'YYYY-MM-DD' dates
OpenDays ==
  {d \in {CivilFromDays(DaysFromCivil(20200101) + k) : k \in 0..(OPS_DAYS - 1)} :
     DayOfWeek(d) # 0 /\ d \notin holidays}

\* C17: the operations table of a run that ended holds, for each location,
\* one row for each day of the range that is neither a Sunday nor a listed
\* holiday and no other row, and no location and date has two rows
C17_OneRowPerOpenDay ==
  opsPc = "done" =>
    /\ \A k \in 1..Len(operationsLocations) :
         {o.Date : o \in {r \in SeqRange(operationsData) :
                            r.Location_ID = operationsLocations[k].id}} = OpenDays
    /\ \A j, k \in 1..Len(operationsData) :
         (/\ operationsData[j].Location_ID = operationsData[k].Location_ID
          /\ operationsData[j].Date = operationsData[k].Date) => j = k

----------------------------------------------------------------------------
(* Properties of the Appointment Generator: the order of the rows *)

\* row a is not later than row b by date of service, then appointment time
NotLater(a, b) ==
  \/ a.Date_of_Service < b.Date_of_Service
  \/ a.Date_of_Service = b.Date_of_Service /\ a.Appointment_Time <= b.Appointment_Time

Ascending(table) == \A k \in 1..(Len(table) - 1) : NotLater(table[k], table[k + 1])

\* C18: the rows the Appointment Generator returns and writes are in
\* ascending order of date of service, then appointment time
C18_RowsAscending ==
  i = NUM_RECORDS =>
    /\ Ascending(appointments)
    /\ Ascending(fs["Pat_App_Data.csv"].rows)

\* the file is written and the rows of the second visit come before the rows
\* of the first, which is on the same day at a later time
C18_Witness ==
  /\ i = NUM_RECORDS
  /\ fs["Pat_App_Data.csv"].state = "ok"
  /\ LET rows == fs["Pat_App_Data.csv"].rows
     IN /\ Len(rows) >= 2
        /\ rows[1].Visit_ID = 2
        /\ rows[Len(rows)].Visit_ID = 1
        /\ rows[1].Date_of_Service = rows[Len(rows)].Date_of_Service
        /\ rows[1].Appointment_Time < rows[Len(rows)].Appointment_Time

\* the rows of Pat_App_Data.csv of a date of service and location
RowsAt(key) ==
  SelectSeq(fs["Pat_App_Data.csv"].rows,
            LAMBDA a : <<a.Date_of_Service, a.Location_ID>> = key)

\* the sum of column c over the Completed rows of the sequence
SumCompleted(rows, c) ==
  Sum([k \in 1..Len(rows) |->
         IF rows[k].Appointment_Status = "Completed" THEN rows[k][c] ELSE 0])

\* the bucket is what the rows say
BucketOf(bucket, rows) ==
  /\ bucket.total = Len(rows)
  /\ bucket.total = bucket.completed + bucket.canceled + bucket.noShow
                      + bucket.rescheduled
  /\ bucket.completed
       = Len(SelectSeq(rows, LAMBDA a : a.Appointment_Status = "Completed"))
  /\ bucket.totalDuration = SumCompleted(rows, "Procedure_Duration")
  /\ bucket.chargedAmount = SumCompleted(rows, "Charged_Amount")
  /\ bucket.insuranceCovered = SumCompleted(rows, "Insurance_Covered_Amount")
  /\ bucket.amountPaid = SumCompleted(rows, "Amount_Paid")

\* C20: after the index is built from an appointment file, it has a bucket
\* for a date and location exactly when the file has a row of them; the
\* bucket's total is the number of these rows and the sum of its four status
\* counts; its duration, charged, covered and paid sums are the sums over the
\* Completed rows; and the operations row of the date and location reports
\* the total as Scheduled_Appointments and the completed count as
\* Actual_Appointments
C20_IndexRebuild ==
  (fs["Pat_App_Data.csv"].state = "ok" /\ opsPc \in {"loop", "done"}) =>
    /\ DOMAIN appointmentData
         = {<<a.Date_of_Service, a.Location_ID>> :
              a \in SeqRange(fs["Pat_App_Data.csv"].rows)}
    /\ \A key \in DOMAIN appointmentData :
         \E rows \in {RowsAt(key)} : BucketOf(appointmentData[key], rows)
    /\ \A o \in SeqRange(operationsData) :
         ~NoBucket(o) =>
           /\ o.Scheduled_Appointments = appointmentData[<<o.Date, o.Location_ID>>].total
           /\ o.Actual_Appointments = appointmentData[<<o.Date, o.Location_ID>>].completed

\* the run has ended; a bucket counts one row of each status and the
\* operations row of its day reports 4 scheduled and 1 actual appointments;
\* another bucket sums the charges of two Completed rows
C20_Witness ==
  /\ opsPc = "done"
  /\ \E key \in DOMAIN appointmentData :
       /\ appointmentData[key].completed = 1 /\ appointmentData[key].canceled = 1
       /\ appointmentData[key].noShow = 1 /\ appointmentData[key].rescheduled = 1
       /\ \E o \in SeqRange(operationsData) :
            /\ <<o.Date, o.Location_ID>> = key
            /\ o.Scheduled_Appointments = 4 /\ o.Actual_Appointments = 1
  /\ \E key \in DOMAIN appointmentData :
       /\ appointmentData[key].completed = 2
       /\ appointmentData[key].chargedAmount = 155 + 1890

\* the sum of the columns of the table in row r
SumColumns(r, table) == Sum([k \in 1..Len(table) |-> r[table[k].column]])

\* C21: in every financial row the ten revenue columns by service category
\* sum to Total_Revenue, and so do the seven payor columns
C21_SplitsSumToRevenue ==
  \A r \in SeqRange(financialData) :
    /\ SumColumns(r, serviceCategories) = r.Total_Revenue
    /\ SumColumns(r, payors) = r.Total_Revenue

----------------------------------------------------------------------------
(* Staff of the day *)

\* the staff-hours rows of an operations row
StaffRowsOf(row) ==
  SelectSeq(staffHoursData, LAMBDA h : h.Operations_ID = row.Operations_ID)

RosterOf(id, role) ==
  {m \in SeqRange(staffMembers) : m.primary_location = id /\ m.role = role}

RoleCount(row, role) ==
  CASE role = "Dentist" -> row.Dentist_Count
    [] role = "Hygienist" -> row.Hygienist_Count
    [] role = "Assistant" -> row.Assistant_Count
    [] role = "Admin" -> row.Admin_Count

HourlyRate(id) == (CHOOSE m \in SeqRange(staffMembers) : m.id = id).hourly_rate

\* C22: in every operations row each role's count is
\* round(roster size of the role at the location * the role's share), the
\* working members of the role are that many distinct members of the
\* location's roster, and Total_Labor_Cost is the rounded sum of
\* hours * hourly rate over the working members
C22_StaffOfTheDay ==
  \A row \in SeqRange(operationsData) :
    LET working == StaffRowsOf(row)
    IN /\ \A r \in 1..Len(staffWorkingPercent) :
            LET role == staffWorkingPercent[r].role
                roster == RosterOf(row.Location_ID, role)
                ids == {working[k].Staff_ID :
                          k \in {n \in 1..Len(working) : working[n].Staff_Role = role}}
            IN /\ RoleCount(row, role)
                    = RoundDiv(Cardinality(roster) * staffWorkingPercent[r].percent, 1000)
               /\ Len(SelectSeq(working, LAMBDA h : h.Staff_Role = role))
                    = RoleCount(row, role)
               /\ Cardinality(ids) = RoleCount(row, role)
               /\ ids \subseteq {m.id : m \in roster}
       /\ row.Staff_Count = Len(working)
       /\ row.Total_Labor_Cost
            = RoundDiv(Sum([k \in 1..Len(working) |->
                             working[k].Hours_Worked * HourlyRate(working[k].Staff_ID)]),
                       100)

\* a day on which three of a location's four hygienists work, the first of
\* the roster not among them
C22_Witness ==
  \E row \in SeqRange(operationsData) :
    /\ Cardinality(RosterOf(row.Location_ID, "Hygienist")) = 4
    /\ row.Hygienist_Count = 3
    /\ \E k \in 1..Len(staffHoursData) :
         /\ staffHoursData[k].Operations_ID = row.Operations_ID
         /\ staffHoursData[k].Staff_ID = "HYG009"
    /\ \A k \in 1..Len(staffHoursData) :
         staffHoursData[k].Operations_ID = row.Operations_ID
           => staffHoursData[k].Staff_ID # "HYG001"

----------------------------------------------------------------------------
(* The comparative pass writes four columns *)

\* the row with its four change columns back at the placeholder
Placeheld(r) ==
  [r EXCEPT !.Revenue_MoM_Change = Number(0), !.Revenue_YoY_Change = Number(0),
            !.EBITDA_MoM_Change = Number(0), !.EBITDA_YoY_Change = Number(0)]

\* the rows of data of r's location that lie n months before r
RowsBeforeIn(data, r, n) ==
  {q \in SeqRange(data) :
     q.Location_ID = r.Location_ID /\ MonthNumber(q) = MonthNumber(r) - n}

\* the step that ends the location loop leaves, the four change columns
\* apart, exactly the rows generated: those of the table before the step and
\* those of the last location's month loop
GeneratedRowsKept ==
  \E us \in RandomSequences :
    /\ {Placeheld(financialData'[k]) : k \in 1..Len(financialData')}
         = SeqRange(financialData)
             \cup SeqRange(MonthLoop(financialLocations[finLocation], existingData,
                                     us, tz))
    /\ Len(financialData')
         = Len(financialData)
             + Len(MonthLoop(financialLocations[finLocation], existingData, us, tz))

\* C23: the comparative pass changes only Revenue_MoM_Change,
\* Revenue_YoY_Change, EBITDA_MoM_Change and EBITDA_YoY_Change: every other
\* column of every generated row is as generated, and a row without a row of
\* the preceding month (of the same month a year before) of its location
\* keeps the number 0 in its MoM (YoY) columns
C23_ComparativeFrame ==
  [][(finPc = "locations" /\ finPc' = "done") =>
       /\ GeneratedRowsKept
       /\ \A k \in 1..Len(financialData') :
            LET r == financialData'[k]
            IN /\ RowsBeforeIn(financialData', r, 1) = {} =>
                    /\ r.Revenue_MoM_Change = Number(0)
                    /\ r.EBITDA_MoM_Change = Number(0)
               /\ RowsBeforeIn(financialData', r, 12) = {} =>
                    /\ r.Revenue_YoY_Change = Number(0)
                    /\ r.EBITDA_YoY_Change = Number(0)]_vars

\* a finished table with a row that kept all four placeholders, a row whose
\* MoM columns were filled while its YoY columns kept theirs, and a row with
\* all four filled
C23_Witness ==
  /\ finPc = "done"
  /\ \E r \in SeqRange(financialData) : Placeheld(r) = r
  /\ \E r \in SeqRange(financialData) :
       /\ r.Revenue_MoM_Change # Number(0) /\ r.EBITDA_MoM_Change # Number(0)
       /\ r.Revenue_YoY_Change = Number(0) /\ r.EBITDA_YoY_Change = Number(0)
  /\ \E r \in SeqRange(financialData) :
       /\ r.Revenue_MoM_Change # Number(0) /\ r.EBITDA_MoM_Change # Number(0)
       /\ r.Revenue_YoY_Change # Number(0) /\ r.EBITDA_YoY_Change # Number(0)

----------------------------------------------------------------------------
(* The precedence of the collection rate *)

\* the entry of r's location and month in an index, <<>> when there is none
EntryOf(index, r) ==
  IF LocationMonth(r) \in DOMAIN index THEN <<index[LocationMonth(r)]>> ELSE <<>>

\* the index as readExistingData left it, empty before it has run
ExistingIndex(name) == IF existingData = <<>> THEN <<>> ELSE existingData[name]

OperationsRate(r) ==
  LET entry == EntryOf(ExistingIndex("operationsByLocationMonth"), r)
  IN IF entry # <<>> /\ entry[1].avgCollectionRate > 0
     THEN <<entry[1].avgCollectionRate>> ELSE <<>>

AppointmentsRate(r) ==
  LET entry == EntryOf(ExistingIndex("appointmentsByLocationMonth"), r)
  IN IF entry # <<>> /\ entry[1].totalChargedAmount > 0
     THEN <<[paid |-> entry[1].totalAmountPaid,
             charged |-> entry[1].totalChargedAmount]>>
     ELSE <<>>

\* C24: Collection_Rate of a financial row is the operations index's average
\* when the month has an entry there with a positive average; otherwise paid
\* over charged of the appointment index when the month has an entry there
\* with a non-zero charged sum; otherwise a value between
\* max(0.6, target - 0.1) and min(0.98, target + 0.05); and
\* Collections_Actual is round(Total_Revenue * that rate)
C24_CollectionRatePrecedence ==
  \A r \in SeqRange(financialData) :
    LET target == LocationNamed(r.Location_ID).target_collection_rate * 100
    IN IF OperationsRate(r) # <<>>
       THEN /\ r.Collection_Rate = OperationsRate(r)[1]
            /\ r.Collections_Actual
                 = MulDivRound(r.Total_Revenue, OperationsRate(r)[1], 10000)
       ELSE IF AppointmentsRate(r) # <<>>
       THEN /\ r.Collection_Rate
                 = ToFixed(AppointmentsRate(r)[1].paid, AppointmentsRate(r)[1].charged,
                           10000)
            /\ r.Collections_Actual
                 = MulDivRound(r.Total_Revenue, AppointmentsRate(r)[1].paid,
                               AppointmentsRate(r)[1].charged)
       ELSE /\ r.Collection_Rate >= Max(6000, target - 1000)
            /\ r.Collection_Rate <= Min(9800, target + 500)
            /\ r.Collections_Actual
                 = MulDivRound(r.Total_Revenue, r.Collection_Rate, 10000)

\* a table with a month whose rate is the operations average although the
\* appointment index has charged amounts for it, a month whose rate is paid
\* over charged, and a month with a rate drawn around the target
C24_Witness ==
  /\ \E r \in SeqRange(financialData) :
       /\ OperationsRate(r) # <<>> /\ AppointmentsRate(r) # <<>>
       /\ OperationsRate(r)[1]
            # ToFixed(AppointmentsRate(r)[1].paid, AppointmentsRate(r)[1].charged, 10000)
  /\ \E r \in SeqRange(financialData) :
       OperationsRate(r) = <<>> /\ AppointmentsRate(r) # <<>>
  /\ \E r \in SeqRange(financialData) :
       OperationsRate(r) = <<>> /\ AppointmentsRate(r) = <<>>

----------------------------------------------------------------------------
(* Cleanings of one patient *)

\* C25: any two cleaning rows of one patient are dated at least five calendar
\* months apart, whatever the order in which their visits were generated
C25_CleaningsFiveMonthsApart ==
  \A a, b \in Rows :
    (/\ a.Procedure_ID # b.Procedure_ID
     /\ a.Patient_ID = b.Patient_ID
     /\ IsCleaning(a.Procedure_Code) /\ IsCleaning(b.Procedure_Code)
     /\ MonthIndex(a.Date_of_Service) <= MonthIndex(b.Date_of_Service))
      => MonthIndex(b.Date_of_Service) >= MonthIndex(a.Date_of_Service) + 5

----------------------------------------------------------------------------
(* Amounts of a Completed row *)

\* Pat_App_Data.csv as main writes it from the rows generated
RowsWritten == FileOf(convertToCSV(SortAppointments(appointments, tz)))

\* C26: in every Completed row 0 <= Amount_Paid <= Out_of_Pocket <=
\* Patient_Responsibility <= Charged_Amount and Insurance_Covered_Amount +
\* Patient_Responsibility = Charged_Amount; and in every bucket that either
\* downstream index builds from the file of these rows, the amount paid is at most
\* the amount charged, so that paid over charged is at most 1
C26_AmountsChain ==
  /\ \A a \in Rows :
       a.Appointment_Status = "Completed" =>
         /\ 0 <= a.Amount_Paid
         /\ a.Amount_Paid <= a.Out_of_Pocket
         /\ a.Out_of_Pocket <= a.Patient_Responsibility
         /\ a.Patient_Responsibility <= a.Charged_Amount
         /\ a.Insurance_Covered_Amount + a.Patient_Responsibility = a.Charged_Amount
  /\ LET byDay == readAppointmentData(RowsWritten)
         byMonth == appointmentsByLocationMonth(RowsWritten)
     IN /\ \A q \in DOMAIN byDay : byDay[q].amountPaid <= byDay[q].chargedAmount
        /\ \A q \in DOMAIN byMonth :
             byMonth[q].totalAmountPaid <= byMonth[q].totalChargedAmount

\* a Completed row of an insured patient, discounted and paid, every
\* inequality of the chain but the first being strict or an equality by
\* payment, in a file whose bucket has paid below charged
C26_Witness ==
  /\ \E a \in Rows :
       /\ a.Appointment_Status = "Completed"
       /\ 0 < a.Amount_Paid /\ a.Amount_Paid = a.Out_of_Pocket
       /\ a.Out_of_Pocket < a.Patient_Responsibility
       /\ a.Patient_Responsibility < a.Charged_Amount
  /\ \E q \in DOMAIN readAppointmentData(RowsWritten) :
       LET m == readAppointmentData(RowsWritten)[q]
       IN 0 < m.amountPaid /\ m.amountPaid < m.chargedAmount

----------------------------------------------------------------------------
(* A failed read of the appointment file *)

\* C27: when Pat_App_Data.csv cannot be read, the Operations Generator
\* writes none of its three tables: each of them stays as it was found
C27_FailedReadWritesNothing ==
  fs["Pat_App_Data.csv"].state \in {"absent", "unreadable"} =>
    \A n \in OperationsFiles : fs[n] = EarlierTables[n]

\* a run ended by the read error in a directory whose three tables hold
\* the rows of an earlier run
C27_Witness ==
  /\ opsPc = "failed"
  /\ fs["Pat_App_Data.csv"].state = "unreadable"
  /\ \A n \in OperationsFiles : fs[n].state = "ok" /\ Len(fs[n].rows) >= 1

----------------------------------------------------------------------------
(* New and returning patients of a day *)

\* C28: in every operations row New_Patient_Count is at most
\* Actual_Appointments, and Returning_Patient_Count is not negative
C28_NewPatientsAmongActual ==
  \A o \in SeqRange(operationsData) :
    /\ o.New_Patient_Count <= o.Actual_Appointments
    /\ o.Returning_Patient_Count >= 0

----------------------------------------------------------------------------
(* The two secondary tables of the Operations Generator *)

\* the rows of a secondary table that carry the Operations_ID of row o
Carrying(table, o) == SelectSeq(table, LAMBDA h : h.Operations_ID = o.Operations_ID)

\* the table has count rows for o, each with o's Location_ID and Date, and
\* every row of the table carries the Operations_ID of a row of the main table
DetailOf(table, o, count) ==
  /\ Len(Carrying(table, o)) = count
  /\ \A h \in SeqRange(Carrying(table, o)) :
       h.Location_ID = o.Location_ID /\ h.Date = o.Date

References(table) ==
  \A k \in 1..Len(table) :
    \E o \in SeqRange(operationsData) : o.Operations_ID = table[k].Operations_ID

\* C29: for every operations row the staff-hours table holds exactly
\* Staff_Count rows and the equipment-usage table exactly Equipment_Count rows
\* with its Operations_ID, Location_ID and Date; every row of the two tables
\* carries the Operations_ID of an operations row; and the three files
\* written hold these tables
C29_SecondaryTables ==
  /\ \A o \in SeqRange(operationsData) :
       /\ DetailOf(staffHoursData, o, o.Staff_Count)
       /\ DetailOf(equipmentUsageData, o, o.Equipment_Count)
  /\ References(staffHoursData)
  /\ References(equipmentUsageData)
  /\ opsPc = "done" =>
       /\ fs["Dental_Operations_Data.csv"] = FileOf(convertToCSV(operationsData))
       /\ fs["Dental_Staff_Hours_Data.csv"] = FileOf(convertToCSV(staffHoursData))
       /\ fs["Dental_Equipment_Usage_Data.csv"]
            = FileOf(convertToCSV(equipmentUsageData))

\* a finished run with a row of four staff and two pieces of equipment, one
\* of them unused that day, and a row of two staff and one piece of equipment
C29_Witness ==
  /\ opsPc = "done"
  /\ \E o \in SeqRange(operationsData) :
       /\ o.Staff_Count = 4 /\ o.Equipment_Count = 2
       /\ \E h \in SeqRange(Carrying(equipmentUsageData, o)) : h.Usage_Count = 0
  /\ \E o \in SeqRange(operationsData) : o.Staff_Count = 2 /\ o.Equipment_Count = 1

----------------------------------------------------------------------------
(* Identifiers of the appointment rows *)

\* C30: no two rows have the same Procedure_ID, which is
\* (visit index) * 10 + (position of the procedure in the visit, 1 to 3);
\* and two rows with the same Visit_ID have the same patient, location,
\* provider, date, time and status
C30_Identifiers ==
  \A j, k \in 1..Len(appointments) :
    LET a == appointments[j]
        b == appointments[k]
    IN /\ a.Procedure_ID - (a.Visit_ID - 1) * 10 \in 1..3
       /\ j # k => a.Procedure_ID # b.Procedure_ID
       /\ a.Visit_ID = b.Visit_ID =>
            /\ a.Patient_ID = b.Patient_ID
            /\ a.Location_ID = b.Location_ID
            /\ a.Provider_ID = b.Provider_ID
            /\ a.Date_of_Service = b.Date_of_Service
            /\ a.Appointment_Time = b.Appointment_Time
            /\ a.Appointment_Status = b.Appointment_Status

\* two visits of two procedures each, the second visit of another patient
\* or on another date than the first
C30_Witness ==
  \E j, k, m, n \in 1..Len(appointments) :
    /\ j # k /\ m # n
    /\ appointments[j].Visit_ID = appointments[k].Visit_ID
    /\ appointments[m].Visit_ID = appointments[n].Visit_ID
    /\ appointments[j].Visit_ID # appointments[m].Visit_ID
    /\ \/ appointments[j].Patient_ID # appointments[m].Patient_ID
       \/ appointments[j].Date_of_Service # appointments[m].Date_of_Service

====
